---- MODULE Spec2Model ----
(***************************************************************************)
(* Model of the buvette stock ledger (modules/stock_db.py), the buvette   *)
(* data-access functions that drive it (modules/buvette_db.py,            *)
(* modules/buvette_inventaire_db.py) and the retrying write helper        *)
(* (modules/db_api.py).                                                    *)
(*                                                                         *)
(* Tables are modelled as sequences in rowid order: the SELECTs of the    *)
(* ledger carry no ORDER BY and scan the table by rowid.                  *)
(***************************************************************************)
EXTENDS Integers, Sequences, FiniteSets, TLC

(***************************************************************************)
(* Bounds of the model.                                                    *)
(***************************************************************************)
MaxStock == 2
MaxDelta == 1
MaxQuantite == 1
MaxLignes == 2
MaxJournal == 2
MaxMouvements == 1
MaxAux == 1
MaxAchats == 2
MaxPrix == 2
MaxRetries == 3
MaxDelay == 2
MaxRowcount == 1
MaxCalls == 4
MaxBatches == 3
MaxBatchQty == 2
MaxConsume == 4
MaxReplay == 2
MaxUpsertLignes == 3
MaxFiles == 3
MaxStatements == 2
MaxRuns == 3
\* How many export calls, or scopes of transaction(), can be open one
\* inside the other.
MaxNesting == 2
MaxArticleRows == 2

\* ids of the rows of buvette_articles and of buvette_inventaires
Articles == {1, 2}
Inventaires == {1, 2}
Deltas == (0 - MaxDelta)..MaxDelta
\* buvette_inventaire_lignes.quantite is a plain INTEGER column: nothing in
\* the data-access layer rejects a negative count.
Quantites == (0 - 1)..MaxQuantite
TypesMouvement == {"entrée", "inventaire", "achat", "sortie", "casse"}

VARIABLES
    stock,           \* buvette_articles.stock, by article id
    purchase_price,  \* buvette_articles.purchase_price, by article id: <<>> is
                     \* NULL, <<p>> the price p
    lignes,          \* buvette_inventaire_lignes, in rowid order
    journal,         \* inventory_stock_journal, in rowid order
    mouvements,      \* buvette_mouvements, in (date_mouvement, id) order
    inventaires,     \* ids of the rows of buvette_inventaires
    aux,             \* rows of one more table that references buvette_inventaires
    aux_parent,      \* the parent table's name as that table's FOREIGN KEY spells it
    achats,          \* buvette_achats, in rowid order
    achat_seq,       \* the last id given to a row of buvette_achats
    inv_seq,         \* the last id given to a row of buvette_inventaires
    ex,              \* the db_api.execute call in progress
    last,            \* history: the call made last, with the state before it
    base,            \* history: stock before the first application of an inventaire
    clean,           \* history: no other stock write since that first application
    adj0,            \* history: stock before the first adjust_stock call
    adjSum,          \* history: sum of the deltas passed to adjust_stock
    adjClamped,      \* history: some adjust_stock call was floored at 0
    ncalls,          \* number of calls made so far
    batches,         \* article_purchase_batches, in id order
    fifo,            \* history: the last consume_purchase_batches_fifo call
    ret,             \* history: the value the last call returned
    procs,           \* each process: where it is in db_file_lock and in its body
    flock,           \* by lock file: the process holding the exclusive lock, or 0
    sdb,             \* by database file: the inventaires table and its writer
    svc,             \* history: what the create_inventory calls returned
    ups,             \* history: the lines before the upserts, and the last upsert of each pair
    mig,             \* migrations/, _migrations, the statements in effect, and the runs
    artdb,           \* buvette_articles as insert_article sees it, and _schema_cache
    app              \* the process: APP_DB_PATH, src.db as imported, and its last call

vars == <<stock, purchase_price, lignes, journal, mouvements, inventaires,
          aux, aux_parent, achats, achat_seq, inv_seq, ex, last, base, clean, adj0, adjSum,
          adjClamped, ncalls, batches, fifo, ret, procs, flock, sdb, svc,
          ups, mig, artdb, app>>

\* The state of the scripts under scripts/ and of what they migrate.
scripts == <<mig, artdb, app>>

\* The tables and calls outside buvette_articles, the inventaires and the
\* purchases.
\* The ledger's variables.
core == <<stock, purchase_price, lignes, journal, mouvements, inventaires,
          aux, aux_parent, achats, achat_seq, inv_seq, ex, last, base, clean, adj0, adjSum,
          adjClamped>>

\* The variables of db_file_lock and of the service that uses it.
lock_vars == <<procs, flock, sdb, svc>>

\* What no step of db_file_lock or of create_inventory touches.
outside_lock == <<core, batches, fifo, ret, ups, scripts>>

\* What no call of stock_db.py touches.
beyond == <<lock_vars, ups, scripts>>

rest == <<batches, fifo, ret, beyond>>

\* What the stock ledger's own calls never touch.
others == <<aux, aux_parent, achats, achat_seq, inv_seq, ex, rest>>

Max(a, b) == IF a >= b THEN a ELSE b

(***************************************************************************)
(* stock_db.py: the ledger functions, as functions of the tables.          *)
(***************************************************************************)
get_stock(st, article_id) ==
    IF article_id \in DOMAIN st THEN st[article_id] ELSE 0

set_stock(st, article_id, qty) ==
    IF article_id \in DOMAIN st THEN [st EXCEPT ![article_id] = qty] ELSE st

adjust_stock_noclamp(st, article_id, delta) ==
    set_stock(st, article_id, get_stock(st, article_id) + delta)

adjust_stock(st, article_id, delta) ==
    LET current_stock == get_stock(st, article_id)
        new_stock == Max(0, current_stock + delta)
    IN  set_stock(st, article_id, new_stock)

\* SELECT article_id, quantite FROM buvette_inventaire_lignes WHERE inventaire_id=?
snapshot_of(lg, inventaire_id) ==
    SelectSeq(lg, LAMBDA l : l.inventaire_id = inventaire_id)

\* SELECT article_id, delta FROM inventory_stock_journal WHERE inventaire_id=?
journal_of(jr, inventaire_id) ==
    SelectSeq(jr, LAMBDA j : j.inventaire_id = inventaire_id)

RECURSIVE apply_items(_, _, _, _)
apply_items(st, jr, items, inventaire_id) ==
    IF items = <<>> THEN [stock |-> st, journal |-> jr]
    ELSE LET item == Head(items)
             current_stock == get_stock(st, item.article_id)
             delta == item.quantite - current_stock
         IN  apply_items(set_stock(st, item.article_id, item.quantite),
                         Append(jr, [inventaire_id |-> inventaire_id,
                                     article_id |-> item.article_id,
                                     delta |-> delta]),
                         Tail(items), inventaire_id)

apply_inventory_snapshot(st, jr, lg, inventaire_id) ==
    LET snapshot == snapshot_of(lg, inventaire_id)
    IN  IF snapshot = <<>> THEN [stock |-> st, journal |-> jr]
        ELSE apply_items(st, jr, snapshot, inventaire_id)

reverted_stock_added(current_stock, delta) == Max(0, current_stock + delta)

\* new_stock = max(0, current_stock - delta)
reverted_stock(current_stock, delta) == Max(0, current_stock - delta)

RECURSIVE revert_rows(_, _)
revert_rows(st, rows) ==
    IF rows = <<>> THEN st
    ELSE LET row == Head(rows)
             current_stock == get_stock(st, row.article_id)
             new_stock == reverted_stock(current_stock, row.delta)
         IN  revert_rows(set_stock(st, row.article_id, new_stock), Tail(rows))

revert_inventory_effect(st, jr, inventaire_id) ==
    [stock |-> revert_rows(st, journal_of(jr, inventaire_id)),
     journal |-> SelectSeq(jr, LAMBDA j : j.inventaire_id # inventaire_id)]

RECURSIVE replay_mouvements(_, _, _)
replay_mouvements(rows, article_id, calculated_stock) ==
    IF rows = <<>> THEN calculated_stock
    ELSE LET row == Head(rows)
             signed == IF row.article_id # article_id THEN 0
                       ELSE IF row.type_mouvement \in {"entrée", "inventaire", "achat"}
                            THEN row.quantite
                       ELSE IF row.type_mouvement = "sortie" THEN 0 - row.quantite
                       ELSE 0
         IN  replay_mouvements(Tail(rows), article_id, calculated_stock + signed)

recompute_stock_value_nofloor(mv, article_id) ==
    replay_mouvements(mv, article_id, 0)

\* Returns the value it stores in the article's stock column.
recompute_stock_value(mv, article_id) ==
    Max(0, replay_mouvements(mv, article_id, 0))

recompute_stock_for_article(st, mv, article_id) ==
    set_stock(st, article_id, recompute_stock_value(mv, article_id))

(***************************************************************************)
(* buvette_inventaire_db.py: the inventory lines.                          *)
(***************************************************************************)
\* A commentaire: <<>> is None, <<c>> the text c.
Commentaires == {<<>>, <<"vu">>}

Ligne(inventaire_id, article_id, quantite, commentaire) ==
    [inventaire_id |-> inventaire_id, article_id |-> article_id,
     quantite |-> quantite, commentaire |-> commentaire]

insert_ligne_inventaire(lg, inventaire_id, article_id, quantite, commentaire) ==
    Append(lg, Ligne(inventaire_id, article_id, quantite, commentaire))

upsert_always_inserts(lg, inventaire_id, article_id, quantite, commentaire) ==
    insert_ligne_inventaire(lg, inventaire_id, article_id, quantite, commentaire)

\* SELECT id ... WHERE inventaire_id=? AND article_id=?; then UPDATE the
\* rows of the pair, or INSERT one.
upsert_ligne_inventaire(lg, inventaire_id, article_id, quantite, commentaire) ==
    IF \E i \in 1..Len(lg) : /\ lg[i].inventaire_id = inventaire_id
                             /\ lg[i].article_id = article_id
    THEN [i \in 1..Len(lg) |->
            IF lg[i].inventaire_id = inventaire_id /\ lg[i].article_id = article_id
            THEN [lg[i] EXCEPT !.quantite = quantite, !.commentaire = commentaire]
            ELSE lg[i]]
    ELSE insert_ligne_inventaire(lg, inventaire_id, article_id, quantite, commentaire)

\* UPDATE buvette_inventaire_lignes SET article_id=?, quantite=?,
\* commentaire=? WHERE id=?. A row is named by its rank in id order; an id
\* of no row changes nothing.
update_ligne_inventaire(lg, ligne_id, article_id, quantite, commentaire) ==
    [k \in 1..Len(lg) |->
        IF k = ligne_id
        THEN [lg[k] EXCEPT !.article_id = article_id, !.quantite = quantite,
                           !.commentaire = commentaire]
        ELSE lg[k]]

\* DELETE FROM buvette_inventaire_lignes WHERE id=?
delete_ligne_inventaire(lg, ligne_id) ==
    IF ligne_id \notin 1..Len(lg) THEN lg
    ELSE [k \in 1..(Len(lg) - 1) |-> IF k < ligne_id THEN lg[k] ELSE lg[k + 1]]

\* The largest id of a set of rows, 0 when there is none.
last_id(ids) == IF ids = {} THEN 0 ELSE CHOOSE m \in ids : \A i \in ids : i <= m

\* INSERT INTO buvette_inventaires ...; return cur.lastrowid. The id column
\* is AUTOINCREMENT: the new id follows the last one ever given.
insert_inventaire(invs, seq) ==
    [inventaires |-> invs \cup {seq + 1}, inv_seq |-> seq + 1, inv_id |-> seq + 1]

(***************************************************************************)
(* buvette_db.py: the movements and the stock column.                      *)
(***************************************************************************)
Mouvement(article_id, type_mouvement, quantite) ==
    [article_id |-> article_id, type_mouvement |-> type_mouvement,
     quantite |-> quantite]

\* UPDATE buvette_mouvements SET ... WHERE id=?, the row named by its rank.
update_mouvement(mv, mvt_id, article_id, type_mouvement, quantite) ==
    [k \in 1..Len(mv) |->
        IF k = mvt_id THEN Mouvement(article_id, type_mouvement, quantite)
        ELSE mv[k]]

\* DELETE FROM buvette_mouvements WHERE id=?
delete_mouvement(mv, mvt_id) ==
    IF mvt_id \notin 1..Len(mv) THEN mv
    ELSE [k \in 1..(Len(mv) - 1) |-> IF k < mvt_id THEN mv[k] ELSE mv[k + 1]]

\* UPDATE buvette_articles SET stock=? WHERE id=?
set_article_stock(st, article_id, new_stock) ==
    IF article_id \in DOMAIN st THEN [st EXCEPT ![article_id] = new_stock] ELSE st

(***************************************************************************)
(* The processes that use db_file_lock, and the files they use.            *)
(***************************************************************************)
Procs == {1, 2, 3}

\* A path is its text without the last suffix, and that suffix ("" if none).
DB_DEFAULT_PATH == [stem |-> "data/association", suffix |-> ".db"]
OtherPath == [stem |-> "data/inv", suffix |-> ""]

\* db_path = None
NonePath == [stem |-> "", suffix |-> ""]

Databases == {DB_DEFAULT_PATH, OtherPath}

\* str(path)
path_str(path) == path.stem \o path.suffix

\* path.with_suffix(suffix)
with_suffix(path, suffix) == path.stem \o suffix

\* lock_path of db_file_lock
lock_path(dbp) ==
    IF dbp.suffix # "" THEN with_suffix(dbp, dbp.suffix \o ".lock")
    ELSE path_str(dbp) \o ".lock"

LockFiles == {lock_path(d) : d \in Databases \cup {NonePath}}

\* A process outside db_file_lock.
Idle ==
    [pc |-> "idle", kind |-> "none", lock_db |-> NonePath, lock_file |-> "",
     db |-> NonePath, timeout |-> FALSE, raised |-> FALSE, new_id |-> 0]

\* An inventaires table with no row, no open transaction, no connection.
NoInventaires == [seq |-> 0, rows |-> {}, writer |-> 0, conns |-> {}]

NoReturns == [returned |-> {}, dup |-> FALSE, raised |-> FALSE]

\* No upsert was made yet, on an empty table of lines.
\* The processes that call upsert_ligne_inventaire at the same time.
UpsertProcs == {1, 2}

\* A process that is in no upsert_ligne_inventaire call. pc is "raised"
\* after a call that raised. row: fetchone() gave a row; open: the SELECT
\* has further rows, so the cursor still reads the table.
NoUpsertCall ==
    [pc |-> "idle", inventaire_id |-> 0, article_id |-> 0, quantite |-> 0,
     row |-> FALSE, open |-> FALSE]

\* calls: where each process is in its call, <<>> before the first call;
\* writer: the process whose connection holds the write lock of the
\* database, or 0.
NoUpserts ==
    [init |-> <<>>, latest |-> [pair \in Inventaires \X Articles |-> <<>>],
     calls |-> <<>>, writer |-> 0]

\* The columns of buvette_articles that the unite migration changes, before
\* and after it.
PreColumns ==
    {"id", "name", "categorie", "unite", "contenance", "commentaire",
     "stock", "purchase_price"}
PostColumns ==
    {"id", "name", "categorie", "quantite", "unite_type", "contenance",
     "commentaire", "stock", "purchase_price"}

\* An older table that holds the price in a prix_achat column.
LegacyColumns == (PreColumns \ {"purchase_price"}) \cup {"prix_achat"}

\* The values of the name argument.
Names == {"Coca"}

\* The values of the unite argument.
Unites == {"bouteille", "canette"}

\* migrate() was not called yet. Afterwards: the number of calls, the table
\* the last call found, and how that call ended.
NoMigrate == [n |-> 0, columns |-> {}, rows |-> <<>>, outcome |-> "none"]

\* No article call was made yet.
NoArticleCall ==
    [op |-> "none", id |-> 0, unite |-> "", raised |-> FALSE, columns |-> {}]

\* An empty pre-migration buvette_articles and an empty _schema_cache:
\* cache is <<>> when the table's key is not in it, <<columns>> otherwise.
\* seq is the table's row of sqlite_sequence: the last id given.
NoArticles ==
    [columns |-> PreColumns, rows |-> <<>>, seq |-> 0, cache |-> <<>>,
     last |-> NoArticleCall, migrated |-> NoMigrate]

\* The database files a path can name, and the defaults of
\* src/db/connection.py and of src/db/compat.py.
DbPaths == {"a.db", "b.db"}
ConnectionDefault == "data/association.db"
CompatDefault == "association.db"

\* A connection of connect() on an empty table. rows: the rows that are
\* committed; pending: the rows written in the open transaction; cursors:
\* the cursors of transaction() that are not closed; scopes: the "with
\* transaction(conn)" that were entered and not left, the innermost last,
\* each with the rows committed when it was entered, the rows written
\* inside it and the number of transaction() entered inside it. Then the
\* "with transaction(conn)" that ended last: whether its body ran, how the
\* body ended, what the caller got, the scope's three values, and the
\* connection as the scope left it.
NoTransaction ==
    [rows |-> 0, pending |-> 0, in_transaction |-> FALSE, cursors |-> 0,
     scopes |-> <<>>,
     ran |-> FALSE, body |-> "none", raised |-> "none", rows0 |-> 0,
     writes |-> 0, nested |-> 0, rows1 |-> 0, pending1 |-> 0,
     in_transaction1 |-> FALSE, cursor_closed |-> FALSE]

\* No export function was called yet. A call: the function, its file_path
\* argument (<<>> is None), whether its library is missing, whether the
\* save dialog was asked, whether it returned and what, the path the call
\* goes on with, where the call is, the error raised, the files it wrote,
\* the files there were before it and when it ended, and the number of
\* calls that began while it waited.
NoExport ==
    [fn |-> "", file_path |-> <<>>, missing |-> FALSE, asked |-> FALSE,
     answered |-> FALSE, dialog |-> "", path |-> "", pc |-> "none",
     raised |-> "none", wrote |-> {}, files0 |-> {}, files1 |-> {},
     nested |-> 0]

\* No call of src.db.compat was made yet.
NoAppCall == [op |-> "none", path |-> <<>>, result |-> ""]

\* The application's process does not run yet.
NotStarted == <<>>

\* The process when it starts, before it imports src.db.compat. env: APP_DB_PATH in
\* os.environ, <<>> when unset. has_connect: the import of
\* src.db.connection succeeded. default: DB_DEFAULT_PATH of that module, or
\* of compat when the import failed. set: the argument of the last
\* set_db_file call. files: the files the exports wrote. exporting: the
\* export calls that have not returned, the innermost last. export: the
\* export call that ended last, as long as no other call has begun.
\* support_default_root: tkinter still makes a root window for a dialog
\* or a message box that names no master. txn: a connection and the
\* scopes of transaction() on it.
NoApp ==
    [env |-> <<>>, imported |-> FALSE, has_connect |-> FALSE, default |-> "",
     set |-> <<>>, last |-> NoAppCall, files |-> {}, exporting |-> <<>>,
     export |-> NoExport, support_default_root |-> TRUE,
     txn |-> NoTransaction]

\* The names of the .sql files, in filename order.
Files == 1..MaxFiles

\* The record of a run, before any run.
NoRun ==
    [mode |-> "none", dry_run |-> FALSE, dir |-> {},
     recorded0 |-> <<>>, done0 |-> <<>>, recorded1 |-> <<>>, done1 |-> <<>>,
     attempted |-> <<>>, succeeded |-> <<>>, failed |-> 0,
     uptodate |-> FALSE, code |-> 0]

\* The processes that run scripts/apply_migrations.py.
Runners == {1, 2}

\* A process that is not running the script. On its way through main it
\* holds the options, the listing of migrations/ (dir) and the database as
\* its SELECT on _migrations found it, the pending files left, the next
\* statement of the file it is applying, and what became of the files it
\* handed to apply_migration.
IdleRunner ==
    [pc |-> "idle", mode |-> "none", dry_run |-> FALSE, force |-> 0,
     dir |-> {}, recorded0 |-> <<>>, done0 |-> <<>>, pending |-> <<>>,
     stmt |-> 0, attempted |-> <<>>, succeeded |-> <<>>]

\* migrations/ is empty, _migrations has no row, no statement has run.
\* runners is <<>> while no process runs the script; run is the record of
\* the run that ended last; overlapped: some run began while another was
\* under way.
NoMigrations ==
    [dir |-> {},
     sql |-> [f \in Files |-> 0],
     recorded |-> <<>>,
     done |-> [f \in Files |-> [k \in 1..MaxStatements |-> 0]],
     forced |-> FALSE,
     nruns |-> 0,
     runners |-> <<>>,
     overlapped |-> FALSE,
     run |-> NoRun]

(***************************************************************************)
(* History of the calls, kept for the statement of the properties.         *)
(***************************************************************************)
ZeroStock == [a \in Articles |-> 0]
NoBase == [i \in Inventaires |-> ZeroStock]
NoClean == [i \in Inventaires |-> FALSE]

\* No db_api.execute call was made yet.
NoError == [phase |-> "done", class |-> "none", locked |-> FALSE, rowcount |-> 0]

ExecIdle ==
    [fn |-> "execute", pc |-> "idle", retries |-> 0, retry_delay |-> 0, commit |-> TRUE,
     attempt |-> 0, delay |-> 0, met |-> <<>>, sleeps |-> <<>>,
     opened |-> 0, closed |-> 0, rolled_back |-> 0, committed |-> 0,
     result |-> "none", rowcount |-> 0, error |-> NoError]

\* A call that the properties do not look back at. applied and reverted
\* list the inventaires that runs of two inventaires applied and reverted,
\* in the order of the calls.
NoCall ==
    [op |-> "none", inv |-> 0, art |-> 0, delta |-> 0, pre |-> ZeroStock,
     njournal |-> 0, children |-> 0, ok |-> TRUE, prix |-> <<>>,
     clean |-> FALSE, base |-> ZeroStock,
     afterApply |-> FALSE, applyPre |-> ZeroStock, applyFresh |-> FALSE,
     applied |-> <<>>, reverted |-> <<>>]

\* The call being made, with the stock as it is before it.
Call(op, inv, art, delta) ==
    [NoCall EXCEPT !.op = op, !.inv = inv, !.art = art, !.delta = delta,
                   !.pre = stock]

\* The histories after inventaire inv was applied: every other inventaire
\* has seen a foreign write; inv keeps the stock of before its first
\* application for as long as nothing else wrote in between.
CleanAfterApply(inv, fresh) ==
    [i \in Inventaires |-> i = inv /\ (fresh \/ clean[inv])]

BaseAfterApply(inv, fresh) ==
    [i \in Inventaires |->
        IF i = inv /\ fresh THEN stock
        ELSE IF i = inv /\ clean[inv] THEN base[inv]
        ELSE ZeroStock]

\* One more call, within the number of calls a run of the model makes.
\* No consume_purchase_batches_fifo call was made yet. total_cost is the
\* fraction num / den of price units.
NoConsume ==
    [called |-> FALSE, article_id |-> 0, scope |-> "", consume_quantity |-> 0,
     pre |-> <<>>, total_cost |-> [num |-> 0, den |-> 1], consumed_batches |-> <<>>]

OneCall == ncalls < MaxCalls /\ ncalls' = ncalls + 1

(***************************************************************************)
(* The ledger: lines, movements, and the four writers of the stock.        *)
(***************************************************************************)
\* Everything but the inventaires and their lines.
InitBesideInventaires ==
    /\ purchase_price = [a \in Articles |-> <<>>]
    /\ journal = <<>>
    /\ mouvements = <<>>
    /\ aux = <<>>
    /\ achats = <<>>
    /\ achat_seq = 0
    /\ ex = ExecIdle
    /\ base = NoBase
    /\ clean = NoClean
    /\ adjSum = [a \in Articles |-> 0]
    /\ adjClamped = [a \in Articles |-> FALSE]
    /\ ncalls = 0
    /\ batches = <<>>
    /\ fifo = NoConsume
    /\ ret = 0
    /\ procs = [p \in Procs |-> Idle]
    /\ flock = [l \in LockFiles |-> 0]
    /\ sdb = [d \in Databases |-> NoInventaires]
    /\ svc = NoReturns
    /\ ups = NoUpserts
    /\ mig = NoMigrations
    /\ artdb = NoArticles
    /\ app = NotStarted

\* Everything but the lines of the inventaires: both inventaires exist.
InitBesideLignes ==
    /\ inventaires = Inventaires
    /\ inv_seq = last_id(Inventaires)
    /\ InitBesideInventaires

InitTables ==
    /\ lignes = <<>>
    /\ InitBesideLignes

InitLedger ==
    /\ stock \in [Articles -> 0..1]
    /\ aux_parent = "buvette_inventaires"
    /\ adj0 = stock
    /\ last = NoCall
    /\ InitTables

InsertLigne ==
    \E i \in inventaires, a \in Articles, q \in Quantites :
        /\ OneCall
        /\ Len(lignes) < MaxLignes
        /\ lignes' = insert_ligne_inventaire(lignes, i, a, q, <<>>)
        /\ last' = NoCall
        /\ UNCHANGED <<others, stock, purchase_price, journal, mouvements, inventaires,
                       base, clean, adj0, adjSum, adjClamped>>

UpsertLigne ==
    \E i \in inventaires, a \in Articles, q \in Quantites :
        /\ OneCall
        /\ Len(upsert_ligne_inventaire(lignes, i, a, q, <<>>)) <= MaxLignes
        /\ lignes' = upsert_ligne_inventaire(lignes, i, a, q, <<>>)
        /\ last' = NoCall
        /\ UNCHANGED <<others, stock, purchase_price, journal, mouvements, inventaires,
                       base, clean, adj0, adjSum, adjClamped>>

InsertMouvement ==
    \E a \in Articles, t \in TypesMouvement, q \in Quantites :
        /\ OneCall
        /\ Len(mouvements) < MaxMouvements
        /\ mouvements' = Append(mouvements,
                                [article_id |-> a, type_mouvement |-> t, quantite |-> q])
        /\ last' = NoCall
        /\ UNCHANGED <<others, stock, purchase_price, lignes, journal, inventaires,
                       base, clean, adj0, adjSum, adjClamped>>

\* ligne_id 0 is the id of no row.
UpdateLigneInventaire ==
    \E k \in 0..Len(lignes), a \in Articles, q \in Quantites :
        /\ OneCall
        /\ lignes' = update_ligne_inventaire(lignes, k, a, q, <<>>)
        /\ last' = NoCall
        /\ UNCHANGED <<others, stock, purchase_price, journal, mouvements, inventaires,
                       base, clean, adj0, adjSum, adjClamped>>

DeleteLigneInventaire ==
    \E k \in 0..Len(lignes) :
        /\ OneCall
        /\ lignes' = delete_ligne_inventaire(lignes, k)
        /\ last' = NoCall
        /\ UNCHANGED <<others, stock, purchase_price, journal, mouvements, inventaires,
                       base, clean, adj0, adjSum, adjClamped>>

UpdateMouvement ==
    \E k \in 0..Len(mouvements), a \in Articles, t \in TypesMouvement, q \in Quantites :
        /\ OneCall
        /\ mouvements' = update_mouvement(mouvements, k, a, t, q)
        /\ last' = NoCall
        /\ UNCHANGED <<others, stock, purchase_price, lignes, journal, inventaires,
                       base, clean, adj0, adjSum, adjClamped>>

DeleteMouvement ==
    \E k \in 0..Len(mouvements) :
        /\ OneCall
        /\ mouvements' = delete_mouvement(mouvements, k)
        /\ last' = NoCall
        /\ UNCHANGED <<others, stock, purchase_price, lignes, journal, inventaires,
                       base, clean, adj0, adjSum, adjClamped>>

\* The stocks a caller of set_article_stock or set_stock may give: the
\* column takes any integer.
StockValues == (0 - 1)..MaxStock

SetArticleStock ==
    \E a \in Articles, v \in StockValues :
        /\ OneCall
        /\ stock' = set_article_stock(stock, a, v)
        /\ last' = Call("set_article_stock", 0, a, v)
        /\ base' = NoBase
        /\ clean' = NoClean
        /\ UNCHANGED <<others, purchase_price, lignes, journal, mouvements, inventaires,
                       adj0, adjSum, adjClamped>>

\* stock_db.set_stock called by itself.
SetStock ==
    \E a \in Articles, v \in StockValues :
        /\ OneCall
        /\ stock' = set_stock(stock, a, v)
        /\ last' = Call("set_stock", 0, a, v)
        /\ base' = NoBase
        /\ clean' = NoClean
        /\ UNCHANGED <<others, purchase_price, lignes, journal, mouvements, inventaires,
                       adj0, adjSum, adjClamped>>

AdjustStock ==
    \E a \in Articles, d \in Deltas :
        /\ OneCall
        /\ stock[a] + d <= MaxStock
        /\ stock' = adjust_stock(stock, a, d)
        /\ last' = Call("adjust_stock", 0, a, d)
        /\ base' = NoBase
        /\ clean' = NoClean
        /\ UNCHANGED <<others, purchase_price, lignes, journal, mouvements, inventaires,
                       adj0, adjSum, adjClamped>>

ApplyInventorySnapshot ==
    \E i \in Inventaires :
        LET r == apply_inventory_snapshot(stock, journal, lignes, i)
            fresh == journal_of(journal, i) = <<>>
            wrote == snapshot_of(lignes, i) # <<>>
        IN  /\ OneCall
            /\ Len(r.journal) <= MaxJournal
            /\ stock' = r.stock
            /\ journal' = r.journal
            /\ last' = [Call("apply_inventory_snapshot", i, 0, 0)
                          EXCEPT !.applyFresh = fresh,
                                 !.njournal = Len(journal)]
            /\ base' = IF wrote THEN BaseAfterApply(i, fresh) ELSE base
            /\ clean' = IF wrote THEN CleanAfterApply(i, fresh) ELSE clean
            /\ UNCHANGED <<others, purchase_price, lignes, mouvements, inventaires,
                           adj0, adjSum, adjClamped>>

RevertInventoryEffect ==
    \E i \in Inventaires :
        LET r == revert_inventory_effect(stock, journal, i)
        IN  /\ OneCall
            /\ stock' = r.stock
            /\ journal' = r.journal
            /\ last' = [Call("revert_inventory_effect", i, 0, 0)
                          EXCEPT !.njournal = Len(journal_of(journal, i)),
                                 !.clean = clean[i],
                                 !.base = base[i],
                                 !.afterApply = (last.op = "apply_inventory_snapshot"
                                                 /\ last.inv = i),
                                 !.applyPre = IF last.op = "apply_inventory_snapshot"
                                                 /\ last.inv = i
                                              THEN last.pre ELSE ZeroStock,
                                 !.applyFresh = last.applyFresh]
            /\ base' = NoBase
            /\ clean' = NoClean
            /\ UNCHANGED <<others, purchase_price, lignes, mouvements, inventaires,
                           adj0, adjSum, adjClamped>>

RecomputeStock ==
    \E a \in Articles :
        /\ OneCall
        /\ stock' = recompute_stock_for_article(stock, mouvements, a)
        /\ last' = Call("recompute_stock_for_article", 0, a, 0)
        /\ base' = NoBase
        /\ clean' = NoClean
        /\ UNCHANGED <<others, purchase_price, lignes, journal, mouvements, inventaires,
                       adj0, adjSum, adjClamped>>

\* The calls that write lines and apply or revert inventaires, with
\* adjust_stock as the other writer of the stock.
NextLedger ==
    \/ InsertLigne
    \/ AdjustStock
    \/ ApplyInventorySnapshot
    \/ RevertInventoryEffect

SpecLedger == InitLedger /\ [][NextLedger]_vars

\* The four writers of buvette_articles.stock in stock_db.py, over any lines
\* and movements the data-access layer can leave.
NextWriters ==
    \/ InsertLigne
    \/ UpsertLigne
    \/ UpdateLigneInventaire
    \/ DeleteLigneInventaire
    \/ InsertMouvement
    \/ UpdateMouvement
    \/ DeleteMouvement
    \/ AdjustStock
    \/ ApplyInventorySnapshot
    \/ RevertInventoryEffect
    \/ RecomputeStock

SpecWriters == InitLedger /\ [][NextWriters]_vars

\* Those, and the two functions that write the column as given.
NextStockWriters == NextWriters \/ SetArticleStock \/ SetStock

SpecStockWriters == InitLedger /\ [][NextStockWriters]_vars

(***************************************************************************)
(* A run of adjust_stock calls from any non-negative stock.                *)
(***************************************************************************)
InitAdjust ==
    /\ stock \in [Articles -> 0..MaxStock]
    /\ aux_parent = "buvette_inventaires"
    /\ adj0 = stock
    /\ last = NoCall
    /\ InitTables

AdjustStockRun ==
    \E a \in Articles, d \in Deltas :
        /\ OneCall
        /\ stock[a] + d <= MaxStock
        /\ stock' = adjust_stock(stock, a, d)
        /\ last' = Call("adjust_stock", 0, a, d)
        /\ adjSum' = [adjSum EXCEPT ![a] = @ + d]
        /\ adjClamped' = [adjClamped EXCEPT ![a] = @ \/ stock[a] + d < 0]
        /\ UNCHANGED <<others, purchase_price, lignes, journal, mouvements, inventaires,
                       base, clean, adj0>>

NextAdjust == AdjustStockRun

SpecAdjust == InitAdjust /\ [][NextAdjust]_vars

(***************************************************************************)
(* Properties of adjust_stock.                                             *)
(***************************************************************************)

\* C1 as stated: after each adjust_stock call of a run that started from
\* stock S >= 0, the stock is max(0, S + sum of all the deltas so far).
C1_StockIsClampedSum ==
    \A a \in Articles : stock[a] = Max(0, adj0[a] + adjSum[a])

\* C1 amended: each adjust_stock call leaves max(0, stock before the call +
\* delta) in the article and touches no other article; the stock is
\* S + sum of the deltas for as long as no call was floored at 0.
C1_StockIsClampedStep ==
    /\ last.op = "adjust_stock" =>
          /\ stock[last.art] = Max(0, last.pre[last.art] + last.delta)
          /\ \A b \in Articles \ {last.art} : stock[b] = last.pre[b]
    /\ \A a \in Articles :
          ~adjClamped[a] => stock[a] = adj0[a] + adjSum[a]

\* A call was floored at 0 and a later call raised the stock again.
C1_Witness ==
    /\ last.op = "adjust_stock"
    /\ adjClamped[last.art]
    /\ last.delta > 0
    /\ stock[last.art] > 0

(***************************************************************************)
(* Properties of apply_inventory_snapshot and revert_inventory_effect.     *)
(***************************************************************************)
\* Inventaire inv holds lines, at most one per article, each with an
\* observed quantity >= 0.
OneLinePerArticle(inv) ==
    LET snapshot == snapshot_of(lignes, inv)
    IN  /\ snapshot # <<>>
        /\ \A k \in 1..Len(snapshot) : snapshot[k].quantite >= 0
        /\ \A k, m \in 1..Len(snapshot) :
              snapshot[k].article_id = snapshot[m].article_id => k = m

NonNegative(st) == \A a \in Articles : st[a] >= 0

\* The apply of inventaire last.inv set each article to its observed
\* quantity and appended one journal row per line, with delta Q - S.
AppliedAsObserved ==
    LET snapshot == snapshot_of(lignes, last.inv)
    IN  /\ \A k \in 1..Len(snapshot) :
              stock[snapshot[k].article_id] = snapshot[k].quantite
        /\ Len(journal) = last.njournal + Len(snapshot)
        /\ \A k \in 1..Len(snapshot) :
              journal[last.njournal + k] =
                 [inventaire_id |-> last.inv,
                  article_id |-> snapshot[k].article_id,
                  delta |-> snapshot[k].quantite - last.pre[snapshot[k].article_id]]

\* The revert that followed the apply at once gave back the stock of
\* before the apply and left no journal row for the inventaire.
RevertedToBeforeApply ==
    /\ stock = last.applyPre
    /\ journal_of(journal, last.inv) = <<>>

\* C2 as stated: for stocks S_i >= 0 and an inventaire with one line per
\* article, Q_i >= 0, the apply sets each stock to Q_i and appends one journal
\* row with delta Q_i - S_i, and a revert right after it restores every S_i
\* and leaves no journal row for the inventaire.
C2_ApplyThenRevertRestores ==
    /\ (/\ last.op = "apply_inventory_snapshot"
        /\ OneLinePerArticle(last.inv)
        /\ NonNegative(last.pre)) => AppliedAsObserved
    /\ (/\ last.op = "revert_inventory_effect"
        /\ last.afterApply
        /\ OneLinePerArticle(last.inv)
        /\ NonNegative(last.applyPre)) => RevertedToBeforeApply

\* C2 amended: the same, for an inventaire that has no journal row when it
\* is applied (it was not applied before, or was reverted since).
C2_FreshApplyThenRevertRestores ==
    /\ (/\ last.op = "apply_inventory_snapshot"
        /\ OneLinePerArticle(last.inv)
        /\ NonNegative(last.pre)) => AppliedAsObserved
    /\ (/\ last.op = "revert_inventory_effect"
        /\ last.afterApply
        /\ last.applyFresh
        /\ OneLinePerArticle(last.inv)
        /\ NonNegative(last.applyPre)) => RevertedToBeforeApply

\* A fresh inventaire with a line for each of two articles, one observed
\* above and one below the stock, was applied and reverted at once.
C2_Witness ==
    /\ last.op = "revert_inventory_effect"
    /\ last.afterApply
    /\ last.applyFresh
    /\ OneLinePerArticle(last.inv)
    /\ NonNegative(last.applyPre)
    /\ LET snapshot == snapshot_of(lignes, last.inv)
       IN  /\ \E k \in 1..Len(snapshot) :
                 snapshot[k].quantite > last.applyPre[snapshot[k].article_id]
           /\ \E k \in 1..Len(snapshot) :
                 snapshot[k].quantite < last.applyPre[snapshot[k].article_id]

\* C5 as stated: whatever adjust_stock, apply_inventory_snapshot,
\* revert_inventory_effect and recompute_stock_for_article calls are made,
\* over any line and movement quantities, no article's stock is below 0.
C5_StockNeverNegative ==
    \A a \in Articles : stock[a] >= 0

\* C6 as stated: when an inventaire was applied one or more times, over any
\* lines, and nothing else wrote the stock since its first application, the
\* revert gives every article the stock of before that first application.
C6_RevertRestoresFirstStock ==
    (/\ last.op = "revert_inventory_effect"
     /\ last.clean
     /\ NonNegative(last.base)
     /\ NonNegative(last.pre)) => stock = last.base

(***************************************************************************)
(* buvette_inventaire_db.py: delete_inventaire.                            *)
(***************************************************************************)
\* PRAGMA foreign_key_list per table of sqlite_master: the parent table as the
\* FOREIGN KEY clause spells it, and the referencing column.
foreign_key_list(ap) ==
    [t \in {"buvette_inventaire_lignes", "inventory_stock_journal", "aux"} |->
        IF t = "aux" THEN [table |-> ap, from |-> "inventaire_id"]
        ELSE [table |-> "buvette_inventaires", from |-> "inventaire_id"]]

\* SQLite resolves table names without regard to case.
sqlite_name(n) == IF n = "BUVETTE_INVENTAIRES" THEN "buvette_inventaires" ELSE n

_find_referencing_tables(fks, parent_table) ==
    {t \in DOMAIN fks : fks[t].table = parent_table}

\* The rows of the child tables that hold inv_id in their foreign key column.
child_rows(lg, jr, ax, inv_id) ==
    [t \in {"buvette_inventaire_lignes", "inventory_stock_journal", "aux"} |->
        IF t = "buvette_inventaire_lignes" THEN Len(snapshot_of(lg, inv_id))
        ELSE IF t = "inventory_stock_journal" THEN Len(journal_of(jr, inv_id))
        ELSE Len(SelectSeq(ax, LAMBDA r : r = inv_id))]

foreign_keys_off(fks, refs, rows) == FALSE

\* PRAGMA foreign_keys = ON: the DELETE of the parent row fails while a row of
\* a table with a foreign key to it, not deleted before, still references it.
foreign_key_violation(fks, refs, rows) ==
    \E t \in DOMAIN fks :
        /\ sqlite_name(fks[t].table) = "buvette_inventaires"
        /\ t \notin refs
        /\ rows[t] > 0

\* Positional arguments revert_inventory_effect(conn, inventaire_id) takes,
\* and those delete_inventaire passes in revert_inventory_effect(inv_id).
revert_inventory_effect_params == 2
delete_inventaire_revert_args == 1

\* The try/except around the revert: a call that does not bind every
\* parameter raises TypeError, which is logged and dropped.
delete_inventaire_revert(st, jr, inv_id) ==
    IF delete_inventaire_revert_args = revert_inventory_effect_params
    THEN revert_inventory_effect(st, jr, inv_id)
    ELSE [stock |-> st, journal |-> jr]

\* delete_inventaire without BEGIN and rollback: each DELETE is kept as soon
\* as it has run, so the child rows are gone when the parent DELETE fails.
delete_inventaire_autocommit(st, jr, lg, ax, invs, ap, inv_id) ==
    LET reverted == delete_inventaire_revert(st, jr, inv_id)
        fks == foreign_key_list(ap)
        refs == _find_referencing_tables(fks, "buvette_inventaires")
        rows == child_rows(lg, reverted.journal, ax, inv_id)
        failed == foreign_key_violation(fks, refs, rows)
    IN  [ok |-> ~failed, stock |-> reverted.stock,
         journal |-> IF "inventory_stock_journal" \in refs
                     THEN SelectSeq(reverted.journal,
                                    LAMBDA j : j.inventaire_id # inv_id)
                     ELSE reverted.journal,
         lignes |-> IF "buvette_inventaire_lignes" \in refs
                    THEN SelectSeq(lg, LAMBDA l : l.inventaire_id # inv_id)
                    ELSE lg,
         aux |-> IF "aux" \in refs
                 THEN SelectSeq(ax, LAMBDA r : r # inv_id) ELSE ax,
         inventaires |-> IF failed THEN invs ELSE invs \ {inv_id}]

\* BEGIN, the DELETE of each referencing table, the DELETE of the parent,
\* commit; on an error rollback and raise.
delete_inventaire(st, jr, lg, ax, invs, ap, inv_id) ==
    LET reverted == delete_inventaire_revert(st, jr, inv_id)
        fks == foreign_key_list(ap)
        refs == _find_referencing_tables(fks, "buvette_inventaires")
        rows == child_rows(lg, reverted.journal, ax, inv_id)
    IN  IF foreign_key_violation(fks, refs, rows)
        THEN \* rollback, and the error goes to the caller
             [ok |-> FALSE, stock |-> reverted.stock, journal |-> reverted.journal,
              lignes |-> lg, aux |-> ax, inventaires |-> invs]
        ELSE [ok |-> TRUE, stock |-> reverted.stock,
              journal |-> IF "inventory_stock_journal" \in refs
                          THEN SelectSeq(reverted.journal,
                                         LAMBDA j : j.inventaire_id # inv_id)
                          ELSE reverted.journal,
              lignes |-> IF "buvette_inventaire_lignes" \in refs
                         THEN SelectSeq(lg, LAMBDA l : l.inventaire_id # inv_id)
                         ELSE lg,
              aux |-> IF "aux" \in refs
                      THEN SelectSeq(ax, LAMBDA r : r # inv_id) ELSE ax,
              inventaires |-> invs \ {inv_id}]

InitDelete ==
    /\ stock \in [Articles -> 0..1]
    /\ aux_parent \in {"buvette_inventaires", "BUVETTE_INVENTAIRES"}
    /\ adj0 = stock
    /\ last = NoCall
    /\ lignes = <<>>
    /\ inventaires \in {{1}, Inventaires}
    /\ inv_seq = last_id(inventaires)
    /\ InitBesideInventaires

InsertInventaire ==
    LET r == insert_inventaire(inventaires, inv_seq)
    IN  /\ OneCall
        /\ r.inv_id \in Inventaires
        /\ inventaires' = r.inventaires
        /\ inv_seq' = r.inv_seq
        /\ ret' = r.inv_id
        /\ last' = NoCall
        /\ UNCHANGED <<batches, fifo, beyond, aux, aux_parent, achats, achat_seq, ex,
                       stock, purchase_price, lignes, journal, mouvements,
                       base, clean, adj0, adjSum, adjClamped>>

InsertAuxRow ==
    \E i \in inventaires :
        /\ OneCall
        /\ Len(aux) < MaxAux
        /\ aux' = Append(aux, i)
        /\ last' = NoCall
        /\ UNCHANGED <<rest, aux_parent, achats, achat_seq, inv_seq, ex, stock, purchase_price,
                       lignes, journal, mouvements, inventaires, base, clean,
                       adj0, adjSum, adjClamped>>

DeleteInventaire ==
    \E i \in inventaires :
        LET r == delete_inventaire(stock, journal, lignes, aux, inventaires,
                                   aux_parent, i)
            rows == child_rows(lignes, journal, aux, i)
        IN  /\ OneCall
            /\ stock' = r.stock
            /\ journal' = r.journal
            /\ lignes' = r.lignes
            /\ aux' = r.aux
            /\ inventaires' = r.inventaires
            /\ last' = [Call("delete_inventaire", i, 0, 0)
                          EXCEPT !.ok = r.ok,
                                 !.clean = clean[i],
                                 !.base = base[i],
                                 !.njournal = rows["inventory_stock_journal"],
                                 !.children = rows["buvette_inventaire_lignes"]
                                              + rows["aux"]]
            /\ base' = IF r.ok THEN [base EXCEPT ![i] = ZeroStock] ELSE base
            /\ clean' = IF r.ok THEN [clean EXCEPT ![i] = FALSE] ELSE clean
            /\ UNCHANGED <<rest, aux_parent, achats, achat_seq, inv_seq, ex, purchase_price,
                           mouvements, adj0, adjSum, adjClamped>>

NextDelete ==
    \/ InsertInventaire
    \/ InsertLigne
    \/ InsertAuxRow
    \/ ApplyInventorySnapshot
    \/ DeleteInventaire

SpecDelete == InitDelete /\ [][NextDelete]_vars

\* C3 as stated: delete_inventaire reverts the inventaire's stock effects
\* before it removes it: after the delete of an inventaire whose snapshot was
\* applied, with no other write since, every article has its pre-snapshot stock.
C3_DeleteRevertsStock ==
    (/\ last.op = "delete_inventaire"
     /\ last.ok
     /\ last.clean
     /\ NonNegative(last.base)
     /\ NonNegative(last.pre)) => stock = last.base

\* C7: after delete_inventaire returns normally, the buvette_inventaires row
\* is gone and no row of a table with a foreign key to buvette_inventaires
\* references it, however that table spells the parent's name.
C7_NoOrphanAfterDelete ==
    (last.op = "delete_inventaire" /\ last.ok) =>
        /\ last.inv \notin inventaires
        /\ \A t \in DOMAIN foreign_key_list(aux_parent) :
              child_rows(lignes, journal, aux, last.inv)[t] = 0

\* An inventaire with lines, journal rows and a row in the other table was
\* deleted.
C7_Witness ==
    /\ last.op = "delete_inventaire"
    /\ last.ok
    /\ last.njournal > 0
    /\ last.children > 1

\* C26: the child-row deletions and the parent deletion of delete_inventaire
\* are one transaction: when a DELETE fails the error reaches the caller, and
\* the buvette_inventaires row and every child row are still there.
C26_FailedDeleteRemovesNothing ==
    (last.op = "delete_inventaire" /\ ~last.ok) =>
        /\ last.inv \in inventaires
        /\ child_rows(lignes, journal, aux, last.inv)["inventory_stock_journal"]
              = last.njournal
        /\ child_rows(lignes, journal, aux, last.inv)["buvette_inventaire_lignes"]
              + child_rows(lignes, journal, aux, last.inv)["aux"]
              = last.children

\* The parent DELETE of an inventaire with a line, a journal row and a row
\* in the other table failed, after the DELETEs of the lines and of the
\* journal rows had run.
C26_Witness ==
    /\ last.op = "delete_inventaire"
    /\ ~last.ok
    /\ last.njournal > 0
    /\ last.children > 1
    /\ \E k \in DOMAIN lignes : lignes[k].inventaire_id = last.inv

(***************************************************************************)
(* buvette_db.py: the purchases.                                           *)
(***************************************************************************)
\* prix_unitaire: <<>> is None, <<p>> the price p.
Prix == {<<>>} \cup {<<p>> : p \in 1..MaxPrix}

\* Positional parameters adjust_stock(conn, article_id, delta, reason=None)
\* requires, and positional arguments insert_achat and delete_achat pass in
\* adjust_stock(article_id, quantite, reason=...).
adjust_stock_params == 3
achat_adjust_stock_args == 2

\* The try/except around the adjustment: a call that does not bind every
\* required parameter raises TypeError, which is logged and dropped.
achat_adjust_stock(st, article_id, delta) ==
    IF achat_adjust_stock_args = adjust_stock_params
    THEN adjust_stock(st, article_id, delta)
    ELSE st

insert_achat(st, pp, ac, seq, article_id, quantite, prix_unitaire) ==
    [achats |-> Append(ac, [id |-> seq + 1, article_id |-> article_id,
                            quantite |-> quantite,
                            prix_unitaire |-> prix_unitaire]),
     achat_seq |-> seq + 1,
     purchase_price |-> IF prix_unitaire # <<>> /\ article_id \in DOMAIN pp
                        THEN [pp EXCEPT ![article_id] = prix_unitaire]
                        ELSE pp,
     stock |-> achat_adjust_stock(st, article_id, quantite)]

\* UPDATE buvette_achats SET article_id=?, quantite=?, prix_unitaire=?, ...
\* WHERE id=?, then the purchase_price of the article given when a price is
\* given, also when no purchase has that id. The stock is not adjusted.
update_achat(pp, ac, achat_id, article_id, quantite, prix_unitaire) ==
    [achats |-> [k \in 1..Len(ac) |->
                    IF ac[k].id = achat_id
                    THEN [id |-> achat_id, article_id |-> article_id,
                          quantite |-> quantite, prix_unitaire |-> prix_unitaire]
                    ELSE ac[k]],
     purchase_price |-> IF prix_unitaire # <<>> /\ article_id \in DOMAIN pp
                        THEN [pp EXCEPT ![article_id] = prix_unitaire]
                        ELSE pp]

delete_achat(st, ac, achat_id) ==
    LET found == SelectSeq(ac, LAMBDA r : r.id = achat_id)
    IN  IF found = <<>> THEN [achats |-> ac, stock |-> st]
        ELSE [achats |-> SelectSeq(ac, LAMBDA r : r.id # achat_id),
              stock |-> achat_adjust_stock(st, found[1].article_id,
                                           0 - found[1].quantite)]

InitAchat ==
    /\ stock \in [Articles -> 0..MaxStock]
    /\ aux_parent = "buvette_inventaires"
    /\ adj0 = stock
    /\ last = NoCall
    /\ InitTables

InsertAchat ==
    \E a \in Articles, q \in 1..MaxQuantite, p \in Prix :
        LET r == insert_achat(stock, purchase_price, achats, achat_seq, a, q, p)
        IN  /\ OneCall
            /\ Len(achats) < MaxAchats
            /\ stock' = r.stock
            /\ purchase_price' = r.purchase_price
            /\ achats' = r.achats
            /\ achat_seq' = r.achat_seq
            /\ last' = [Call("insert_achat", 0, a, q) EXCEPT !.prix = p]
            /\ UNCHANGED <<rest, aux, aux_parent, ex, lignes, journal, mouvements,
                           inventaires, inv_seq, base, clean, adj0, adjSum, adjClamped>>

\* achat_id 0 is the id of no purchase.
UpdateAchat ==
    \E id \in 0..achat_seq, a \in Articles, q \in 1..MaxQuantite, p \in Prix :
        LET r == update_achat(purchase_price, achats, id, a, q, p)
        IN  /\ OneCall
            /\ purchase_price' = r.purchase_price
            /\ achats' = r.achats
            /\ last' = [Call("update_achat", 0, a, q) EXCEPT !.prix = p]
            /\ UNCHANGED <<rest, aux, aux_parent, ex, achat_seq, inv_seq, stock,
                           lignes, journal, mouvements, inventaires, base,
                           clean, adj0, adjSum, adjClamped>>

DeleteAchat ==
    \E k \in 1..Len(achats) :
        LET r == delete_achat(stock, achats, achats[k].id)
        IN  /\ OneCall
            /\ stock' = r.stock
            /\ achats' = r.achats
            /\ last' = Call("delete_achat", 0, achats[k].article_id,
                            achats[k].quantite)
            /\ UNCHANGED <<rest, aux, aux_parent, ex, achat_seq, inv_seq, purchase_price,
                           lignes, journal, mouvements, inventaires, base,
                           clean, adj0, adjSum, adjClamped>>

NextAchat ==
    \/ InsertAchat
    \/ UpdateAchat
    \/ DeleteAchat

SpecAchat == InitAchat /\ [][NextAchat]_vars

\* C4 as stated: insert_achat raises the article's stock by quantite and sets
\* its purchase_price to the prix_unitaire given; delete_achat lowers the
\* stock by the purchase's quantite.
C4_AchatMovesStock ==
    /\ last.op = "insert_achat" =>
          /\ stock[last.art] = last.pre[last.art] + last.delta
          /\ last.prix # <<>> => purchase_price[last.art] = last.prix
    /\ last.op = "delete_achat" =>
          stock[last.art] = Max(0, last.pre[last.art] - last.delta)

(***************************************************************************)
(* db_api.py: execute, the write helper that retries on a locked database, *)
(* and the helpers that make one attempt.                                  *)
(***************************************************************************)
\* What one attempt meets: success with cursor.rowcount, or an error raised
\* by get_connection ("connect", which swallows the errors of its PRAGMAs),
\* cursor.execute or conn.commit. locked: the error's message holds "locked".
Success == {[phase |-> "done", class |-> "none", locked |-> FALSE, rowcount |-> n] :
               n \in 0..MaxRowcount}

Failures ==
    {[phase |-> ph, class |-> "OperationalError", locked |-> l, rowcount |-> 0] :
        ph \in {"execute", "commit"}, l \in BOOLEAN}
    \cup {[phase |-> ph, class |-> "IntegrityError", locked |-> FALSE, rowcount |-> 0] :
        ph \in {"execute", "commit"}}
    \cup {[phase |-> "connect", class |-> "OperationalError", locked |-> FALSE,
            rowcount |-> 0]}

Outcomes == Success \cup Failures

\* conn is set: get_connection returned before the error was raised.
has_conn(o) == o.phase # "connect"

next_delay_same(delay) == delay

\* delay *= 2
next_delay(delay) == delay * 2

retry_any_operational(o, attempt, retries) ==
    o.class = "OperationalError" /\ attempt < retries - 1

\* except sqlite3.OperationalError: "locked" in error_msg and attempt < retries - 1
retry_on_lock(o, attempt, retries) ==
    o.class = "OperationalError" /\ o.locked /\ attempt < retries - 1

\* execute_begin with a loop that makes its first pass whatever retries is.
execute_begin_first_pass(retries, retry_delay, commit) ==
    [ExecIdle EXCEPT !.pc = "running",
                     !.retries = retries, !.retry_delay = retry_delay,
                     !.commit = commit, !.delay = retry_delay]

\* The state of the call before the first pass of "for attempt in
\* range(retries)"; an empty range falls through to the end of the function.
execute_begin(retries, retry_delay, commit) ==
    [ExecIdle EXCEPT !.pc = IF retries > 0 THEN "running" ELSE "returned",
                     !.retries = retries, !.retry_delay = retry_delay,
                     !.commit = commit, !.delay = retry_delay,
                     !.result = IF retries > 0 THEN "none" ELSE "None"]

\* One pass of the loop, meeting outcome o. opened and closed count the
\* connections: the one a retried attempt held is closed before the sleep,
\* and any other by the finally clause.
execute_attempt(e, o) ==
    LET conn == IF has_conn(o) THEN 1 ELSE 0
        seen == [e EXCEPT !.met = Append(@, o),
                          !.opened = @ + conn,
                          !.closed = @ + conn]
    IN  IF o \in Success
        THEN [seen EXCEPT !.pc = "returned", !.result = "rows_affected",
                          !.rowcount = o.rowcount,
                          !.committed = IF e.commit THEN @ + 1 ELSE @]
        ELSE IF retry_on_lock(o, e.attempt, e.retries)
        THEN [seen EXCEPT !.sleeps = Append(@, e.delay),
                          !.delay = next_delay(e.delay),
                          !.attempt = @ + 1]
        ELSE [seen EXCEPT !.pc = "raised", !.result = "raise", !.error = o,
                          !.rolled_back = @ + conn]

\* A call of a helper that makes one attempt, meeting outcome o: the
\* finally clause closes the connection if get_connection returned one.
\* rowcount is the number of rows the statement found or changed.
one_attempt(fn, commit, o, result, closed, rolled_back) ==
    [ExecIdle EXCEPT !.fn = fn,
                     !.pc = IF o \in Success THEN "returned" ELSE "raised",
                     !.retries = 1, !.commit = commit, !.met = <<o>>,
                     !.opened = IF has_conn(o) THEN 1 ELSE 0,
                     !.closed = closed,
                     !.rolled_back = rolled_back,
                     !.committed = IF o \in Success /\ commit THEN 1 ELSE 0,
                     !.result = IF o \in Success THEN result ELSE "raise",
                     !.rowcount = o.rowcount,
                     !.error = IF o \in Success THEN NoError ELSE o]

\* query_one: fetchone() gives None or a row; except logs and raises;
\* finally "if conn: conn.close()".
query_one(o) ==
    one_attempt("query_one", FALSE, o,
                IF o.rowcount = 0 THEN "None" ELSE "row",
                IF has_conn(o) THEN 1 ELSE 0, 0)

\* query_all: fetchall() gives the rows; the rest as query_one.
query_all(o) ==
    one_attempt("query_all", FALSE, o, "rows",
                IF has_conn(o) THEN 1 ELSE 0, 0)

\* execute_query with a close that only the return reaches.
execute_query_close_on_return(commit, o) ==
    one_attempt("execute_query", commit, o, "rows_affected",
                IF o \in Success THEN 1 ELSE 0,
                IF o \notin Success /\ has_conn(o) THEN 1 ELSE 0)

\* execute_query: commit if asked; except "if conn: conn.rollback()" and
\* raise; finally "if conn: conn.close()".
execute_query(commit, o) ==
    one_attempt("execute_query", commit, o, "rows_affected",
                IF has_conn(o) THEN 1 ELSE 0,
                IF o \notin Success /\ has_conn(o) THEN 1 ELSE 0)

InitExec ==
    /\ stock = ZeroStock
    /\ aux_parent = "buvette_inventaires"
    /\ adj0 = stock
    /\ last = NoCall
    /\ InitTables

ExecuteCall ==
    \E r \in (0 - 1)..MaxRetries, d \in 1..MaxDelay, c \in BOOLEAN :
        /\ OneCall
        /\ ex.pc # "running"
        /\ ex' = execute_begin(r, d, c)
        /\ UNCHANGED <<rest, stock, purchase_price, lignes, journal, mouvements,
                       inventaires, aux, aux_parent, achats, achat_seq, inv_seq, last,
                       base, clean, adj0, adjSum, adjClamped>>

ExecuteAttempt ==
    \E o \in Outcomes :
        /\ ex.pc = "running"
        /\ o.phase = "commit" => ex.commit
        /\ ex' = execute_attempt(ex, o)
        /\ UNCHANGED <<rest, stock, purchase_price, lignes, journal, mouvements,
                       inventaires, aux, aux_parent, achats, achat_seq, inv_seq, last,
                       base, clean, adj0, adjSum, adjClamped, ncalls>>

NextExec ==
    \/ ExecuteCall
    \/ ExecuteAttempt

SpecExec == InitExec /\ [][NextExec]_vars

\* The calls of the read helpers: no statement of theirs is a commit.
QueryOne ==
    \E o \in Outcomes :
        /\ OneCall
        /\ ex.pc # "running"
        /\ o.phase # "commit"
        /\ ex' = query_one(o)
        /\ UNCHANGED <<rest, stock, purchase_price, lignes, journal, mouvements,
                       inventaires, aux, aux_parent, achats, achat_seq, inv_seq, last,
                       base, clean, adj0, adjSum, adjClamped>>

QueryAll ==
    \E o \in Outcomes :
        /\ OneCall
        /\ ex.pc # "running"
        /\ o.phase # "commit"
        /\ ex' = query_all(o)
        /\ UNCHANGED <<rest, stock, purchase_price, lignes, journal, mouvements,
                       inventaires, aux, aux_parent, achats, achat_seq, inv_seq, last,
                       base, clean, adj0, adjSum, adjClamped>>

ExecuteQuery ==
    \E o \in Outcomes, c \in BOOLEAN :
        /\ OneCall
        /\ ex.pc # "running"
        /\ o.phase = "commit" => c
        /\ ex' = execute_query(c, o)
        /\ UNCHANGED <<rest, stock, purchase_price, lignes, journal, mouvements,
                       inventaires, aux, aux_parent, achats, achat_seq, inv_seq, last,
                       base, clean, adj0, adjSum, adjClamped>>

NextHelpers ==
    \/ QueryOne
    \/ QueryAll
    \/ ExecuteQuery
    \/ ExecuteCall
    \/ ExecuteAttempt

SpecHelpers == InitExec /\ [][NextHelpers]_vars

IsLockError(o) == o.class = "OperationalError" /\ o.locked
IsOtherError(o) == o \in Failures /\ ~IsLockError(o)
AllLocked(m) == \A j \in 1..Len(m) : IsLockError(m[j])

RECURSIVE Pow2(_)
Pow2(n) == IF n <= 0 THEN 1 ELSE 2 * Pow2(n - 1)

\* d, 2d, ..., 2^(k-1) d
Backoff(d, k) == [j \in 1..k |-> d * Pow2(j - 1)]

\* C8: k lock errors in a row, 1 <= k < retries, then a success: execute
\* returns the affected-row count after exactly k+1 attempts, each on a
\* connection of its own, closed again, having slept d, 2d, ..., 2^(k-1) d in
\* that order; and as long as fewer than retries attempts all met a lock, the
\* call is still trying, with those sleeps behind it.
C8_RetriesThenSucceeds ==
    LET n == Len(ex.met)
    IN  /\ (/\ ex.pc = "returned"
            /\ n >= 2
            /\ AllLocked(SubSeq(ex.met, 1, n - 1))) =>
              /\ ex.met[n] \in Success
              /\ n <= ex.retries
              /\ ex.result = "rows_affected"
              /\ ex.rowcount = ex.met[n].rowcount
              /\ ex.sleeps = Backoff(ex.retry_delay, n - 1)
              /\ ex.opened = n
              /\ ex.closed = n
        /\ (/\ ex.pc \in {"running", "raised"}
            /\ n >= 1
            /\ n < ex.retries
            /\ AllLocked(ex.met)) =>
              /\ ex.pc = "running"
              /\ ex.attempt = n
              /\ ex.sleeps = Backoff(ex.retry_delay, n)

\* Two lock errors, then a success on the third attempt of retries = 3.
C8_Witness ==
    /\ ex.pc = "returned"
    /\ ex.retries = 3
    /\ Len(ex.met) = 3
    /\ AllLocked(SubSeq(ex.met, 1, 2))
    /\ ex.result = "rows_affected"
    /\ ex.rowcount = 1

\* C9 as stated: when every attempt meets a lock error, execute raises that
\* error after the first attempt plus retries retries, 1 + retries attempts
\* in all, each retry after a backoff wait of its own.
C9_RaisesAfterRetriesPlusOne ==
    (ex.pc = "raised" /\ AllLocked(ex.met)) =>
        /\ ex.result = "raise"
        /\ IsLockError(ex.error)
        /\ Len(ex.met) = 1 + ex.retries
        /\ Len(ex.sleeps) = ex.retries

\* C10: an attempt that fails with an error that is no lock error is the
\* last one: execute rolls back the connection it holds and raises that
\* error; when it is the first attempt, there was one attempt and no sleep.
C10_OtherErrorRaisesAtOnce ==
    \A j \in 1..Len(ex.met) :
        IsOtherError(ex.met[j]) =>
            /\ j = Len(ex.met)
            /\ ex.pc = "raised"
            /\ ex.result = "raise"
            /\ ex.error = ex.met[j]
            /\ has_conn(ex.met[j]) => ex.rolled_back = 1
            /\ ex.committed = 0
            /\ j = 1 => (ex.sleeps = <<>> /\ ex.opened <= 1)

\* The first attempt of a call with retries to spare met an integrity error,
\* or an operational error that is no lock error.
C10_Witness ==
    /\ ex.pc = "raised"
    /\ ex.retries >= 2
    /\ Len(ex.met) = 1
    /\ ex.met[1].phase = "execute"
    /\ ex.met[1].class = "OperationalError"
    /\ ~ex.met[1].locked
    /\ ex.rolled_back = 1

\* C30: execute called with retries <= 0 makes no attempt: it opens no
\* connection, runs no statement, sleeps, commits and rolls back nothing,
\* raises nothing and returns None.
C30_NoRetriesNoAttempt ==
    (ex.pc # "idle" /\ ex.retries <= 0) =>
        /\ ex.pc = "returned"
        /\ ex.result = "None"
        /\ ex.met = <<>>
        /\ ex.opened = 0
        /\ ex.closed = 0
        /\ ex.sleeps = <<>>
        /\ ex.committed = 0
        /\ ex.rolled_back = 0

\* execute was called with a negative retries and has returned; it was
\* not the first call.
C30_Witness ==
    /\ ex.pc = "returned"
    /\ ex.retries < 0
    /\ ex.result = "None"
    /\ ncalls >= 2

\* The attempts of the call that got a connection from get_connection.
Connected == {j \in 1..Len(ex.met) : has_conn(ex.met[j])}

\* C22: query_one, query_all, execute_query and every attempt of execute
\* close each connection they opened by the time they return or raise, and
\* execute by the time it starts the next attempt: after a success, a query
\* error, a commit error and each retried attempt.
C22_HelpersCloseTheirConnection ==
    ex.pc # "idle" =>
        /\ ex.opened = Cardinality(Connected)
        /\ ex.closed = ex.opened

\* execute_query met an error of conn.commit(), rolled back and raised,
\* with its connection closed.
C22_Witness ==
    /\ ex.fn = "execute_query"
    /\ ex.pc = "raised"
    /\ ex.met[1].phase = "commit"
    /\ ex.opened = 1
    /\ ex.closed = 1
    /\ ex.rolled_back = 1

\* execute is between two attempts, the first of which met a lock, and
\* holds no connection.
ExecuteRetrying ==
    /\ ex.fn = "execute"
    /\ ex.pc = "running"
    /\ Len(ex.met) = 1
    /\ ex.opened = 1
    /\ ex.closed = 1

(***************************************************************************)
(* stock_db.py: purchase batches and their FIFO consumption. Quantities    *)
(* are integers; a unit_price is a whole number of price units, and a cost *)
(* that the code divides is kept as the fraction num / den.                *)
(***************************************************************************)
Scopes == {"buvette", "bar"}

\* Values of CURRENT_TIMESTAMP, the default of purchase_date.
Dates == {1, 2}

UnitPrices == 1..MaxPrix

create_purchase_batch(bt, article_id, quantity, unit_price, scope, purchase_date) ==
    Append(bt, [id |-> Len(bt) + 1,
                article_id |-> article_id,
                quantity |-> quantity,
                remaining_quantity |-> quantity,
                unit_price |-> unit_price,
                purchase_date |-> purchase_date,
                scope |-> scope])

\* eligible without the condition on scope.
eligible_any_scope(bt, article_id, scope) ==
    {k \in 1..Len(bt) : /\ bt[k].article_id = article_id
                        /\ bt[k].remaining_quantity > 0}

\* WHERE article_id = ? AND scope = ? AND remaining_quantity > 0
eligible(bt, article_id, scope) ==
    {k \in 1..Len(bt) : /\ bt[k].article_id = article_id
                        /\ bt[k].scope = scope
                        /\ bt[k].remaining_quantity > 0}

fifo_before_by_id(b1, b2) == b1.id < b2.id

\* ORDER BY purchase_date ASC, id ASC
fifo_before(b1, b2) ==
    \/ b1.purchase_date < b2.purchase_date
    \/ b1.purchase_date = b2.purchase_date /\ b1.id < b2.id

RECURSIVE fifo_order(_, _)
fifo_order(bt, ids) ==
    IF ids = {} THEN <<>>
    ELSE LET first == CHOOSE k \in ids :
                         \A m \in ids \ {k} : fifo_before(bt[k], bt[m])
         IN  <<first>> \o fifo_order(bt, ids \ {first})

\* rows: the ids of the eligible batches, oldest first.
fifo_rows(bt, article_id, scope) == fifo_order(bt, eligible(bt, article_id, scope))

\* for row in rows: the loop over the batches, with its four locals.
RECURSIVE fifo_loop(_, _, _, _, _)
fifo_loop(rows, bt, total_cost, consumed_batches, remaining_to_consume) ==
    IF rows = <<>> \/ remaining_to_consume <= 0
    THEN [batches |-> bt, total_cost |-> total_cost,
          consumed_batches |-> consumed_batches,
          remaining_to_consume |-> remaining_to_consume]
    ELSE LET batch_id == Head(rows)
             batch_remaining == bt[batch_id].remaining_quantity
             batch_unit_price == bt[batch_id].unit_price
             consumed_from_batch ==
                 IF remaining_to_consume <= batch_remaining
                 THEN remaining_to_consume ELSE batch_remaining
             cost_from_batch == consumed_from_batch * batch_unit_price
             new_remaining == batch_remaining - consumed_from_batch
         IN  fifo_loop(Tail(rows),
                       [bt EXCEPT ![batch_id].remaining_quantity = new_remaining],
                       total_cost + cost_from_batch,
                       Append(consumed_batches,
                              [batch_id |-> batch_id,
                               consumed_quantity |-> consumed_from_batch,
                               unit_price |-> batch_unit_price,
                               cost |-> cost_from_batch]),
                       remaining_to_consume - consumed_from_batch)

no_estimated_cost(total_cost, consume_quantity, remaining_to_consume) ==
    [num |-> total_cost, den |-> 1]

\* avg_price = total_cost / (consume_quantity - remaining_to_consume);
\* total_cost += remaining_to_consume * avg_price
estimated_cost(total_cost, consume_quantity, remaining_to_consume) ==
    LET consumed == consume_quantity - remaining_to_consume
    IN  [num |-> total_cost * consumed + remaining_to_consume * total_cost,
         den |-> consumed]

consume_purchase_batches_fifo(bt, article_id, consume_quantity, scope) ==
    LET done == fifo_loop(fifo_rows(bt, article_id, scope), bt, 0, <<>>,
                          consume_quantity)
    IN  [batches |-> done.batches,
         consumed_batches |-> done.consumed_batches,
         total_cost |->
            IF done.remaining_to_consume > 0 /\ done.consumed_batches # <<>>
            THEN estimated_cost(done.total_cost, consume_quantity,
                                done.remaining_to_consume)
            ELSE [num |-> done.total_cost, den |-> 1]]

InitFifo ==
    /\ stock = ZeroStock
    /\ aux_parent = "buvette_inventaires"
    /\ adj0 = stock
    /\ last = NoCall
    /\ InitTables

CreatePurchaseBatch ==
    \E a \in Articles, q \in 1..MaxBatchQty, p \in UnitPrices, sc \in Scopes,
       d \in Dates :
        /\ OneCall
        /\ Len(batches) < MaxBatches
        /\ batches' = create_purchase_batch(batches, a, q, p, sc, d)
        /\ UNCHANGED <<stock, purchase_price, lignes, journal, mouvements,
                       inventaires, aux, aux_parent, achats, achat_seq, inv_seq, ex, last,
                       base, clean, adj0, adjSum, adjClamped, fifo, ret, beyond>>

ConsumePurchaseBatchesFifo ==
    \E a \in Articles, sc \in Scopes, n \in 0..MaxConsume :
        LET r == consume_purchase_batches_fifo(batches, a, n, sc)
        IN  /\ OneCall
            /\ batches' = r.batches
            /\ fifo' = [called |-> TRUE, article_id |-> a, scope |-> sc,
                        consume_quantity |-> n, pre |-> batches,
                        total_cost |-> r.total_cost,
                        consumed_batches |-> r.consumed_batches]
            /\ UNCHANGED <<stock, purchase_price, lignes, journal, mouvements,
                           inventaires, aux, aux_parent, achats, achat_seq, inv_seq, ex,
                           last, base, clean, adj0, adjSum, adjClamped, ret,
                           beyond>>

NextFifo ==
    \/ CreatePurchaseBatch
    \/ ConsumePurchaseBatchesFifo

SpecFifo == InitFifo /\ [][NextFifo]_vars


(***************************************************************************)
(* Properties of consume_purchase_batches_fifo.                            *)
(***************************************************************************)
\* The batches the last call could draw on, as they were before it.
FifoEligible ==
    {k \in 1..Len(fifo.pre) : /\ fifo.pre[k].article_id = fifo.article_id
                              /\ fifo.pre[k].scope = fifo.scope
                              /\ fifo.pre[k].remaining_quantity > 0}

\* What the last call took from batch k.
FifoTaken(k) == fifo.pre[k].remaining_quantity - batches[k].remaining_quantity

\* Batch k comes before batch m in ascending (purchase_date, id) order.
FifoOlder(k, m) ==
    \/ fifo.pre[k].purchase_date < fifo.pre[m].purchase_date
    \/ /\ fifo.pre[k].purchase_date = fifo.pre[m].purchase_date
       /\ k < m

RECURSIVE SumOver(_, _)
SumOver(S, f) ==
    IF S = {} THEN 0
    ELSE LET x == CHOOSE y \in S : TRUE
         IN  f[x] + SumOver(S \ {x}, f)

\* A: the units the eligible batches held; C: what those units cost.
FifoAvailable ==
    SumOver(FifoEligible, [k \in FifoEligible |-> fifo.pre[k].remaining_quantity])

FifoWorth ==
    SumOver(FifoEligible, [k \in FifoEligible |->
                fifo.pre[k].remaining_quantity * fifo.pre[k].unit_price])

\* C11: when the eligible batches hold at least n units, the call takes the
\* n units in ascending (purchase_date, id) order: a batch is drawn on only
\* once every older eligible batch is at 0, the amounts taken sum to n,
\* every other batch is as it was, and total_cost is the sum of amount taken
\* times unit_price over the batches drawn on, which consumed_batches lists.
C11_FifoConsumesOldestFirst ==
    (fifo.called /\ FifoAvailable >= fifo.consume_quantity) =>
        /\ \A k \in 1..Len(fifo.pre) :
              /\ FifoTaken(k) >= 0
              /\ k \notin FifoEligible => batches[k] = fifo.pre[k]
              /\ batches[k] = [fifo.pre[k] EXCEPT
                                 !.remaining_quantity = @ - FifoTaken(k)]
        /\ \A k, m \in FifoEligible :
              (FifoOlder(k, m) /\ FifoTaken(m) > 0) =>
                  batches[k].remaining_quantity = 0
        /\ SumOver(FifoEligible, [k \in FifoEligible |-> FifoTaken(k)])
              = fifo.consume_quantity
        /\ fifo.total_cost.den = 1
        /\ fifo.total_cost.num =
              SumOver(FifoEligible, [k \in FifoEligible |->
                         FifoTaken(k) * fifo.pre[k].unit_price])
        /\ {fifo.consumed_batches[j].batch_id :
               j \in 1..Len(fifo.consumed_batches)}
              = {k \in FifoEligible : FifoTaken(k) > 0}
        /\ \A j \in 1..Len(fifo.consumed_batches) :
              LET c == fifo.consumed_batches[j]
              IN  /\ c.consumed_quantity = FifoTaken(c.batch_id)
                  /\ c.cost = c.consumed_quantity * fifo.pre[c.batch_id].unit_price

\* Of three eligible batches the call drained the oldest, which is not the
\* one of lowest id, took part of the next and left the newest untouched.
C11_Witness ==
    /\ fifo.called
    /\ FifoAvailable >= fifo.consume_quantity
    /\ \E k, m, j \in FifoEligible :
          /\ FifoOlder(k, m) /\ FifoOlder(m, j)
          /\ m < k
          /\ batches[k].remaining_quantity = 0
          /\ FifoTaken(m) > 0 /\ batches[m].remaining_quantity > 0
          /\ FifoTaken(j) = 0
          /\ fifo.pre[k].unit_price # fifo.pre[m].unit_price

\* C12: when n exceeds the A > 0 units the eligible batches hold, the call
\* drains every eligible batch to 0 and returns
\* total_cost = C + (n - A) * (C / A), C being the cost of those A units.
C12_ShortfallAtAveragePrice ==
    (/\ fifo.called
     /\ FifoAvailable > 0
     /\ fifo.consume_quantity > FifoAvailable) =>
        /\ \A k \in FifoEligible : batches[k].remaining_quantity = 0
        /\ \A k \in 1..Len(fifo.pre) \ FifoEligible : batches[k] = fifo.pre[k]
        /\ fifo.total_cost.den > 0
        /\ fifo.total_cost.num * FifoAvailable =
              fifo.total_cost.den *
                 (FifoWorth * FifoAvailable
                    + (fifo.consume_quantity - FifoAvailable) * FifoWorth)

\* Two eligible batches of different prices were drained and the call was
\* still two or more units short.
C12_Witness ==
    /\ fifo.called
    /\ fifo.consume_quantity >= FifoAvailable + 2
    /\ \E k, m \in FifoEligible :
          /\ fifo.pre[k].unit_price # fifo.pre[m].unit_price
          /\ batches[k].remaining_quantity = 0
          /\ batches[m].remaining_quantity = 0
    /\ \E k \in 1..Len(fifo.pre) : k \notin FifoEligible

\* Batches of any quantity from 0, all of one price and one purchase date.
CreatePurchaseBatchFromZero ==
    \E a \in Articles, q \in 0..MaxBatchQty, sc \in Scopes :
        /\ OneCall
        /\ Len(batches) < MaxBatches
        /\ batches' = create_purchase_batch(batches, a, q, 1, sc, 1)
        /\ fifo' = NoConsume
        /\ UNCHANGED <<core, ret, beyond>>

NextBatches ==
    \/ CreatePurchaseBatchFromZero
    \/ ConsumePurchaseBatchesFifo

SpecBatches == InitFifo /\ [][NextBatches]_vars

\* The batches of the article and scope of the last consume call.
FifoOwn ==
    {k \in 1..Len(fifo.pre) : /\ fifo.pre[k].article_id = fifo.article_id
                              /\ fifo.pre[k].scope = fifo.scope}

\* The smaller of n and the units those batches held before the call.
FifoDue ==
    LET held == SumOver(FifoOwn, [k \in FifoOwn |-> fifo.pre[k].remaining_quantity])
    IN  IF fifo.consume_quantity <= held THEN fifo.consume_quantity ELSE held

\* C29: after create_purchase_batch calls with quantity >= 0 and
\* consume_purchase_batches_fifo calls with n >= 0, every batch has
\* 0 <= remaining_quantity <= quantity; a consume call leaves the batches of
\* every other article or scope as they were and lowers the total remaining
\* quantity of its own article and scope by min(n, that total before).
C29_RemainingWithinQuantity ==
    /\ \A k \in 1..Len(batches) :
          /\ 0 <= batches[k].remaining_quantity
          /\ batches[k].remaining_quantity <= batches[k].quantity
    /\ fifo.called =>
          /\ Len(batches) = Len(fifo.pre)
          /\ \A k \in 1..Len(fifo.pre) \ FifoOwn : batches[k] = fifo.pre[k]
          /\ SumOver(FifoOwn, [k \in FifoOwn |-> batches[k].remaining_quantity])
                = SumOver(FifoOwn,
                          [k \in FifoOwn |-> fifo.pre[k].remaining_quantity])
                  - FifoDue

\* A call asked for more than its article and scope held: it drained a
\* batch, while a batch of quantity 0 of the same article and scope and a
\* batch of the same article in the other scope were there.
C29_Witness ==
    /\ fifo.called
    /\ fifo.consume_quantity > FifoDue
    /\ \E k, z \in FifoOwn :
          /\ batches[k].remaining_quantity = 0 /\ fifo.pre[k].quantity > 1
          /\ fifo.pre[z].quantity = 0
    /\ \E j \in 1..Len(fifo.pre) :
          /\ fifo.pre[j].article_id = fifo.article_id
          /\ fifo.pre[j].scope # fifo.scope
          /\ fifo.pre[j].remaining_quantity > 0

(***************************************************************************)
(* stock_db.py: recompute_stock_for_article over longer runs of movements. *)
(***************************************************************************)
InitRecompute ==
    /\ stock \in [Articles -> 0..1]
    /\ aux_parent = "buvette_inventaires"
    /\ adj0 = stock
    /\ last = NoCall
    /\ InitTables

\* The quantities of the movements replayed: any the stock can reach, and
\* a negative one.
ReplayQuantites == (0 - 1)..MaxStock

InsertMouvementRun ==
    \E a \in Articles, t \in TypesMouvement, q \in ReplayQuantites :
        /\ OneCall
        /\ Len(mouvements) < MaxReplay
        /\ mouvements' = Append(mouvements,
                                [article_id |-> a, type_mouvement |-> t, quantite |-> q])
        /\ last' = NoCall
        /\ UNCHANGED <<others, stock, purchase_price, lignes, journal, inventaires,
                       base, clean, adj0, adjSum, adjClamped>>

RecomputeStockRun ==
    \E a \in Articles :
        /\ OneCall
        /\ stock' = recompute_stock_for_article(stock, mouvements, a)
        /\ ret' = recompute_stock_value(mouvements, a)
        /\ last' = Call("recompute_stock_for_article", 0, a, 0)
        /\ base' = NoBase
        /\ clean' = NoClean
        /\ UNCHANGED <<batches, fifo, beyond, aux, aux_parent, achats, achat_seq, inv_seq, ex,
                       purchase_price, lignes, journal, mouvements, inventaires,
                       adj0, adjSum, adjClamped>>

NextRecompute ==
    \/ InsertMouvementRun
    \/ RecomputeStockRun

SpecRecompute == InitRecompute /\ [][NextRecompute]_vars

\* Sum of quantite over the movements of article a whose type is in types.
MouvementSum(a, types) ==
    LET rows == {k \in 1..Len(mouvements) :
                    /\ mouvements[k].article_id = a
                    /\ mouvements[k].type_mouvement \in types}
    IN  SumOver(rows, [k \in rows |-> mouvements[k].quantite])

\* C13: recompute_stock_for_article returns, and stores as the article's
\* stock, max(0, sum of quantite over its 'entrée', 'inventaire' and 'achat'
\* movements minus the sum over its 'sortie' movements); other types count
\* for nothing, the floor applies to the final sum only, and no other
\* article's stock changes.
C13_RecomputeIsFlooredSignedSum ==
    last.op = "recompute_stock_for_article" =>
        /\ ret = Max(0, MouvementSum(last.art, {"entrée", "inventaire", "achat"})
                          - MouvementSum(last.art, {"sortie"}))
        /\ stock[last.art] = ret
        /\ \A b \in Articles \ {last.art} : stock[b] = last.pre[b]

\* A 'sortie' came before a larger 'entrée' of the same article: the running
\* sum was below 0 on the way, and the result is their difference.
C13_Witness ==
    /\ last.op = "recompute_stock_for_article"
    /\ Len(mouvements) = 2
    /\ mouvements[1].article_id = last.art
    /\ mouvements[2].article_id = last.art
    /\ mouvements[1].type_mouvement = "sortie"
    /\ mouvements[2].type_mouvement = "entrée"
    /\ mouvements[1].quantite > 0
    /\ ret = mouvements[2].quantite - mouvements[1].quantite
    /\ ret > 0
    /\ stock[last.art] # last.pre[last.art]


(***************************************************************************)
(* src/db/lock.py: db_file_lock, and InventoryService.create_inventory,    *)
(* which runs its connect, insert, commit and close inside it.             *)
(***************************************************************************)
\* portalocker.lock(fh, LOCK_EX) returns once no other open file holds the
\* exclusive lock of the lock file.
lock_always_free(fl, lock_file) == TRUE

lock_free(fl, lock_file) == fl[lock_file] = 0

\* portalocker.unlock(fh)
unlock(fl, lock_file, p) ==
    IF fl[lock_file] = p THEN [fl EXCEPT ![lock_file] = 0] ELSE fl

close_keeps_lock(fl, lock_file, p) == fl

\* Leaving "with open(lock_path, 'a+') as fh" closes fh, which drops a lock
\* still held through it.
close_lock_file(fl, lock_file, p) ==
    IF fl[lock_file] = p THEN [fl EXCEPT ![lock_file] = 0] ELSE fl

service_lock_db_own(_db_path) == _db_path

\* db_path = self._db_path or DB_DEFAULT_PATH
service_lock_db(_db_path) ==
    IF _db_path = NonePath THEN DB_DEFAULT_PATH ELSE _db_path

\* connect: path = DB_DEFAULT_PATH if db_path is None else Path(db_path)
service_connect_db(_db_path) ==
    IF _db_path = NonePath THEN DB_DEFAULT_PATH ELSE _db_path

InitLock ==
    /\ stock = ZeroStock
    /\ aux_parent = "buvette_inventaires"
    /\ adj0 = stock
    /\ last = NoCall
    /\ InitTables

\* "with db_file_lock(db_path, timeout=...)": the lock file is opened.
EnterLock(p) ==
    \E d \in Databases, t \in BOOLEAN :
        /\ OneCall
        /\ procs[p].pc = "idle"
        /\ procs' = [procs EXCEPT ![p] =
                        [Idle EXCEPT !.pc = "locking", !.kind = "lock",
                                     !.lock_db = d, !.lock_file = lock_path(d),
                                     !.timeout = t]]
        /\ UNCHANGED <<outside_lock, flock, sdb, svc>>

\* create_inventory of a service made with db_path sp, up to the open of
\* the lock file.
CreateInventory(p) ==
    \E sp \in Databases \cup {NonePath} :
        /\ OneCall
        /\ procs[p].pc = "idle"
        /\ procs' = [procs EXCEPT ![p] =
                        [Idle EXCEPT !.pc = "locking", !.kind = "create_inventory",
                                     !.lock_db = service_lock_db(sp),
                                     !.lock_file = lock_path(service_lock_db(sp)),
                                     !.db = service_connect_db(sp)]]
        /\ UNCHANGED <<outside_lock, flock, sdb, svc>>

\* Without a timeout the call blocks until the lock is free.
AcquireLock(p) ==
    /\ procs[p].pc = "locking"
    /\ ~procs[p].timeout
    /\ lock_free(flock, procs[p].lock_file)
    /\ flock' = [flock EXCEPT ![procs[p].lock_file] = p]
    /\ procs' = [procs EXCEPT ![p].pc = "body"]
    /\ UNCHANGED <<outside_lock, ncalls, sdb, svc>>

\* With a timeout the call takes the free lock or raises.
AcquireWithTimeout(p) ==
    /\ procs[p].pc = "locking"
    /\ procs[p].timeout
    /\ \/ /\ lock_free(flock, procs[p].lock_file)
          /\ flock' = [flock EXCEPT ![procs[p].lock_file] = p]
          /\ procs' = [procs EXCEPT ![p].pc = "body"]
       \/ /\ procs' = [procs EXCEPT ![p].pc = "finally", ![p].raised = TRUE]
          /\ UNCHANGED flock
    /\ UNCHANGED <<outside_lock, ncalls, sdb, svc>>

BodyReturns(p) ==
    /\ procs[p].pc = "body"
    /\ procs[p].kind = "lock"
    /\ procs' = [procs EXCEPT ![p].pc = "finally"]
    /\ UNCHANGED <<outside_lock, ncalls, flock, sdb, svc>>

BodyRaises(p) ==
    /\ procs[p].pc = "body"
    /\ procs[p].kind = "lock"
    /\ procs' = [procs EXCEPT ![p].pc = "finally", ![p].raised = TRUE]
    /\ UNCHANGED <<outside_lock, ncalls, flock, sdb, svc>>

\* conn = connect(self._db_path)
SvcConnect(p) ==
    /\ procs[p].pc = "body"
    /\ procs[p].kind = "create_inventory"
    /\ sdb' = [sdb EXCEPT ![procs[p].db].conns = @ \cup {p}]
    /\ procs' = [procs EXCEPT ![p].pc = "connected"]
    /\ UNCHANGED <<outside_lock, ncalls, flock, svc>>

\* BEGIN and INSERT: the row gets the id after the last one given, unless
\* another connection has a write in progress for longer than busy_timeout.
SvcInsert(p) ==
    /\ procs[p].pc = "connected"
    /\ IF sdb[procs[p].db].writer = 0
       THEN /\ sdb' = [sdb EXCEPT ![procs[p].db].writer = p]
            /\ procs' = [procs EXCEPT ![p].pc = "inserted",
                                      ![p].new_id = sdb[procs[p].db].seq + 1]
       ELSE /\ procs' = [procs EXCEPT ![p].pc = "failed", ![p].raised = TRUE]
            /\ UNCHANGED sdb
    /\ UNCHANGED <<outside_lock, ncalls, flock, svc>>

\* conn.commit() on leaving "with transaction(conn)"
SvcCommit(p) ==
    /\ procs[p].pc = "inserted"
    /\ sdb' = [sdb EXCEPT ![procs[p].db].rows = @ \cup {procs[p].new_id},
                          ![procs[p].db].seq = procs[p].new_id,
                          ![procs[p].db].writer = 0]
    /\ procs' = [procs EXCEPT ![p].pc = "committed"]
    /\ UNCHANGED <<outside_lock, ncalls, flock, svc>>

\* finally: conn.close()
SvcClose(p) ==
    /\ procs[p].pc \in {"committed", "failed"}
    /\ sdb' = [sdb EXCEPT ![procs[p].db].conns = @ \ {p}]
    /\ procs' = [procs EXCEPT ![p].pc = "finally"]
    /\ UNCHANGED <<outside_lock, ncalls, flock, svc>>

\* finally: portalocker.unlock(fh), whose error is swallowed.
Unlock(p) ==
    /\ procs[p].pc = "finally"
    /\ \/ flock' = unlock(flock, procs[p].lock_file, p)
       \/ UNCHANGED flock
    /\ procs' = [procs EXCEPT ![p].pc = "closing"]
    /\ UNCHANGED <<outside_lock, ncalls, sdb, svc>>

\* The lock file is closed and the call returns or raises.
CloseLockFile(p) ==
    /\ procs[p].pc = "closing"
    /\ flock' = close_lock_file(flock, procs[p].lock_file, p)
    /\ svc' = IF procs[p].kind # "create_inventory" THEN svc
              ELSE IF procs[p].raised THEN [svc EXCEPT !.raised = TRUE]
              ELSE [svc EXCEPT
                      !.returned = @ \cup {<<procs[p].db, procs[p].new_id>>},
                      !.dup = @ \/ <<procs[p].db, procs[p].new_id>> \in svc.returned]
    /\ procs' = [procs EXCEPT ![p] = Idle]
    /\ UNCHANGED <<outside_lock, ncalls, sdb>>

\* What a process that called db_file_lock itself does next.
ProceedLock(p) ==
    \/ AcquireLock(p)
    \/ AcquireWithTimeout(p)
    \/ BodyReturns(p)
    \/ BodyRaises(p)
    \/ Unlock(p)
    \/ CloseLockFile(p)

\* What a process inside create_inventory does next.
ProceedService(p) ==
    \/ AcquireLock(p)
    \/ SvcConnect(p)
    \/ SvcInsert(p)
    \/ SvcCommit(p)
    \/ SvcClose(p)
    \/ Unlock(p)
    \/ CloseLockFile(p)

\* Processes of both kinds.
NextLock ==
    \E p \in Procs :
        \/ EnterLock(p)
        \/ CreateInventory(p)
        \/ ProceedLock(p)
        \/ SvcConnect(p)
        \/ SvcInsert(p)
        \/ SvcCommit(p)
        \/ SvcClose(p)

SpecLock == InitLock /\ [][NextLock]_vars

\* The users of db_file_lock alone. Every body and every step of the exit
\* path is carried out, and a free lock is given to a process that keeps
\* waiting for it.
NextLockUsers == \E p \in Procs : EnterLock(p) \/ ProceedLock(p)

SpecLockFair ==
    InitLock /\ [][NextLockUsers]_vars /\ \A p \in Procs : WF_vars(ProceedLock(p))

\* The callers of create_inventory alone, under the same fairness.
NextService == \E p \in Procs : CreateInventory(p) \/ ProceedService(p)

SpecServiceFair ==
    InitLock /\ [][NextService]_vars /\ \A p \in Procs : WF_vars(ProceedService(p))

(***************************************************************************)
(* Properties of db_file_lock and of create_inventory.                     *)
(***************************************************************************)
\* Process p is inside the with-body of db_file_lock.
InBody(p) == procs[p].pc \in {"body", "connected", "inserted", "committed", "failed"}

\* Process p is between connect and close in create_inventory.
InSection(p) == procs[p].pc \in {"connected", "inserted", "committed", "failed"}

\* C14: of the processes that use db_file_lock on the same database path at
\* most one is inside the with-body at any time, and the lock file each of
\* them uses is the database path with ".lock" appended.
C14_OneInBodyPerPath ==
    /\ \A p, q \in Procs :
          (p # q /\ InBody(p) /\ InBody(q)) => procs[p].lock_db # procs[q].lock_db
    /\ \A p \in Procs :
          procs[p].pc # "idle" =>
              procs[p].lock_file = path_str(procs[p].lock_db) \o ".lock"

\* One process is in the body while two others wait for the same path's
\* lock, one of them on a path with a suffix and one without a timeout.
C14_Witness ==
    \E p, q, r \in Procs :
        /\ p # q /\ q # r /\ p # r
        /\ InBody(p)
        /\ procs[q].pc = "locking" /\ procs[r].pc = "locking"
        /\ procs[q].lock_db = procs[p].lock_db
        /\ procs[r].lock_db = procs[p].lock_db
        /\ procs[p].lock_db.suffix # ""
        /\ ~procs[q].timeout

\* C15: a process that has left db_file_lock, whether its body returned or
\* raised and whether or not unlock failed, holds no lock; and a process
\* waiting for the lock without a timeout gets into the body in the end,
\* given that every body ends.
C15_LockReleasedOnEveryExit ==
    /\ [](\A p \in Procs : \A l \in LockFiles :
             flock[l] = p => procs[p].pc \notin {"idle", "locking"})
    /\ \A p \in Procs :
          (procs[p].pc = "locking" /\ ~procs[p].timeout) ~> (procs[p].pc = "body")

\* The unlock of a process whose body raised failed, so that it still holds
\* the lock while it closes the file, and another process waits for that
\* lock without a timeout.
C15_Witness ==
    \E p, q \in Procs :
        /\ procs[p].pc = "closing"
        /\ procs[p].raised
        /\ flock[procs[p].lock_file] = p
        /\ procs[q].pc = "locking"
        /\ ~procs[q].timeout
        /\ procs[q].lock_file = procs[p].lock_file

\* C16: create_inventory calls on one database never overlap between
\* connect and close, each such section runs while its process holds the
\* lock of that database's path, no call raises, no id is returned twice for
\* one database, and every call returns.
C16_CreateInventorySerialised ==
    /\ [](/\ \A p, q \in Procs :
                (p # q /\ InSection(p) /\ InSection(q)) => procs[p].db # procs[q].db
          /\ \A p \in Procs :
                InSection(p) => flock[lock_path(procs[p].db)] = p
          /\ ~svc.dup
          /\ ~svc.raised)
    /\ \A p \in Procs :
          (procs[p].kind = "create_inventory" /\ procs[p].pc = "locking")
             ~> (procs[p].pc = "idle")

\* Two calls on one database have returned, with different ids, and a third
\* process is in its section on that database.
C16_Witness ==
    \E p \in Procs : \E i, j \in 1..MaxCalls :
        /\ InSection(p)
        /\ i # j
        /\ <<procs[p].db, i>> \in svc.returned
        /\ <<procs[p].db, j>> \in svc.returned


(***************************************************************************)
(* buvette_inventaire_db.py: runs of upsert_ligne_inventaire over a table  *)
(* that holds at most one line per (inventaire_id, article_id).            *)
(***************************************************************************)
\* The lines of lg for the pair (inventaire_id, article_id), in table order.
lines_of(lg, inventaire_id, article_id) ==
    SelectSeq(lg, LAMBDA l : /\ l.inventaire_id = inventaire_id
                             /\ l.article_id = article_id)

\* The quantities the runs write.
UpsertQuantites == 0..MaxDelta

InitUpsert ==
    /\ stock = ZeroStock
    /\ aux_parent = "buvette_inventaires"
    /\ adj0 = stock
    /\ last = NoCall
    /\ InitTables

\* The table before the first upsert: lines inserted for pairs that had none.
InsertFirstLigne ==
    \E i \in inventaires, a \in Articles, q \in UpsertQuantites, c \in Commentaires :
        /\ OneCall
        /\ \A pair \in Inventaires \X Articles : ups.latest[pair] = <<>>
        /\ lines_of(lignes, i, a) = <<>>
        /\ Len(lignes) < MaxUpsertLignes
        /\ lignes' = insert_ligne_inventaire(lignes, i, a, q, c)
        /\ ups' = [ups EXCEPT !.init = lignes']
        /\ UNCHANGED <<stock, purchase_price, journal, mouvements, inventaires,
                       aux, aux_parent, achats, achat_seq, inv_seq, ex, last, base, clean,
                       adj0, adjSum, adjClamped, batches, fifo, ret, lock_vars, scripts>>

UpsertLigneRun ==
    \E i \in inventaires, a \in Articles, q \in UpsertQuantites, c \in Commentaires :
        /\ OneCall
        /\ Len(upsert_ligne_inventaire(lignes, i, a, q, c)) <= MaxUpsertLignes
        /\ lignes' = upsert_ligne_inventaire(lignes, i, a, q, c)
        /\ ups' = [ups EXCEPT !.latest[<<i, a>>] = <<q, c>>]
        /\ UNCHANGED <<stock, purchase_price, journal, mouvements, inventaires,
                       aux, aux_parent, achats, achat_seq, inv_seq, ex, last, base, clean,
                       adj0, adjSum, adjClamped, batches, fifo, ret, lock_vars, scripts>>

NextUpsert ==
    \/ InsertFirstLigne
    \/ UpsertLigneRun

SpecUpsert == InitUpsert /\ [][NextUpsert]_vars

\* C17: from a table with at most one line per (inventaire_id, article_id),
\* after any run of upsert_ligne_inventaire calls there is at most one line
\* per pair; the line of a pair that was upserted holds the quantite and
\* commentaire of the last upsert of that pair; and the lines of the pairs
\* that were not upserted are those the table started with.
C17_UpsertKeepsOneLinePerPair ==
    \A i \in Inventaires, a \in Articles :
        /\ Len(lines_of(lignes, i, a)) <= 1
        /\ ups.latest[<<i, a>>] # <<>> =>
              lines_of(lignes, i, a) =
                 <<Ligne(i, a, ups.latest[<<i, a>>][1], ups.latest[<<i, a>>][2])>>
        /\ ups.latest[<<i, a>>] = <<>> =>
              lines_of(lignes, i, a) = lines_of(ups.init, i, a)

\* One pair's first line was replaced by an upsert, another pair got its
\* line from an upsert, and a third pair's line was never upserted.
C17_Witness ==
    \E i, j, k \in Inventaires, a, b, c \in Articles :
        /\ <<i, a>> # <<j, b>> /\ <<i, a>> # <<k, c>> /\ <<j, b>> # <<k, c>>
        /\ lines_of(ups.init, i, a) # <<>>
        /\ ups.latest[<<i, a>>] # <<>>
        /\ lines_of(lignes, i, a) # lines_of(ups.init, i, a)
        /\ lines_of(ups.init, j, b) = <<>>
        /\ ups.latest[<<j, b>>] # <<>>
        /\ lines_of(ups.init, k, c) # <<>>
        /\ ups.latest[<<k, c>>] = <<>>


(***************************************************************************)
(* buvette_inventaire_db.py: upsert_ligne_inventaire called by two         *)
(* processes, each on a connection of its own. A SELECT reads the          *)
(* committed table; the INSERT or UPDATE takes the write lock of the       *)
(* database, which the commit releases.                                    *)
(***************************************************************************)
\* SELECT id ... WHERE inventaire_id=? AND article_id=?, then fetchone():
\* whether there is a row.
upsert_select(lg, inventaire_id, article_id) ==
    lines_of(lg, inventaire_id, article_id) # <<>>

\* After fetchone() the SELECT is finished when it had no row or one; with
\* more rows the cursor stays on the table, and its connection keeps the
\* read lock, until the cursor runs its next statement.
select_left_open(lg, inventaire_id, article_id) ==
    Len(lines_of(lg, inventaire_id, article_id)) >= 2

\* "if row:" UPDATE the lines of the pair, else INSERT one.
upsert_write(lg, row, inventaire_id, article_id, quantite, commentaire) ==
    IF row
    THEN [i \in 1..Len(lg) |->
            IF lg[i].inventaire_id = inventaire_id /\ lg[i].article_id = article_id
            THEN [lg[i] EXCEPT !.quantite = quantite, !.commentaire = commentaire]
            ELSE lg[i]]
    ELSE insert_ligne_inventaire(lg, inventaire_id, article_id, quantite, commentaire)

\* Where each process is in its call.
UpsertCalls ==
    IF ups.calls = <<>> THEN [p \in UpsertProcs |-> NoUpsertCall] ELSE ups.calls

UpsertUnchanged ==
    UNCHANGED <<stock, purchase_price, journal, mouvements, inventaires,
                aux, aux_parent, achats, achat_seq, inv_seq, ex, last, base, clean,
                adj0, adjSum, adjClamped, batches, fifo, ret, lock_vars, scripts>>

\* The call starts and makes its SELECT.
UpsertSelect(p) ==
    \E i \in inventaires, a \in Articles, q \in UpsertQuantites :
        /\ OneCall
        /\ UpsertCalls[p].pc \in {"idle", "raised"}
        /\ ups' = [ups EXCEPT !.calls = [UpsertCalls EXCEPT ![p] =
                      [pc |-> "selected", inventaire_id |-> i, article_id |-> a,
                       quantite |-> q, row |-> upsert_select(lignes, i, a),
                       open |-> select_left_open(lignes, i, a)]]]
        /\ lignes' = lignes
        /\ UpsertUnchanged

\* The UPDATE or INSERT: it waits while another connection holds the write
\* lock, and its change is not committed yet.
UpsertWrite(p) ==
    /\ UpsertCalls[p].pc = "selected"
    /\ ups.writer = 0
    /\ ups' = [ups EXCEPT !.calls = [UpsertCalls EXCEPT ![p].pc = "written"],
                       !.writer = p]
    /\ UNCHANGED <<lignes, ncalls>>
    /\ UpsertUnchanged

\* The wait for the write lock lasts longer than the connection's timeout:
\* the statement raises sqlite3.OperationalError (database is locked), the
\* finally clause closes the connection and the call raises, with nothing
\* written.
UpsertLocked(p) ==
    /\ UpsertCalls[p].pc = "selected"
    /\ ups.writer \notin {0, p}
    /\ ups' = [ups EXCEPT !.calls = [UpsertCalls EXCEPT ![p] =
                  [NoUpsertCall EXCEPT !.pc = "raised"]]]
    /\ UNCHANGED <<lignes, ncalls>>
    /\ UpsertUnchanged

\* conn.commit() while another connection is still reading the table (its
\* SELECT was left open): in the default journal mode the commit waits for
\* the readers, and past the connection's timeout it raises
\* sqlite3.OperationalError (database is locked). The finally clause closes
\* the connection, which gives the write up: nothing is written and the call
\* raises.
UpsertCommitLocked(p) ==
    /\ UpsertCalls[p].pc = "written"
    /\ \E q \in UpsertProcs \ {p} :
          UpsertCalls[q].pc = "selected" /\ UpsertCalls[q].open
    /\ ups' = [ups EXCEPT !.calls = [UpsertCalls EXCEPT ![p] =
                  [NoUpsertCall EXCEPT !.pc = "raised"]],
                       !.writer = 0]
    /\ UNCHANGED <<lignes, ncalls>>
    /\ UpsertUnchanged

\* conn.commit(), and the call returns.
UpsertCommit(p) ==
    /\ UpsertCalls[p].pc = "written"
    /\ lignes' = upsert_write(lignes, UpsertCalls[p].row,
                              UpsertCalls[p].inventaire_id,
                              UpsertCalls[p].article_id,
                              UpsertCalls[p].quantite, <<>>)
    /\ ups' = [ups EXCEPT !.calls = [UpsertCalls EXCEPT ![p] = NoUpsertCall],
                       !.writer = 0]
    /\ UNCHANGED ncalls
    /\ UpsertUnchanged

NextConcurrentUpsert ==
    \E p \in UpsertProcs :
        \/ UpsertSelect(p)
        \/ UpsertWrite(p)
        \/ UpsertLocked(p)
        \/ UpsertCommitLocked(p)
        \/ UpsertCommit(p)

SpecConcurrentUpsert == InitUpsert /\ [][NextConcurrentUpsert]_vars

\* What holds of the calls: each pair has at most one line per process.
AtMostOneLinePerProcess ==
    \A i \in Inventaires, a \in Articles :
        Len(lines_of(lignes, i, a)) <= Cardinality(UpsertProcs)

\* C27: also when two processes run upsert_ligne_inventaire for the same
\* pair at the same time, each on its own connection, each (inventaire_id,
\* article_id) pair has at most one line, whatever the interleaving of their
\* SELECT, INSERT or UPDATE, and commit.
C27_ConcurrentUpsertsKeepOneLine ==
    \A i \in Inventaires, a \in Articles : Len(lines_of(lignes, i, a)) <= 1

\* Both processes made their SELECT for a pair without a line before either
\* made its INSERT, both have committed, and the pair has two lines.
C27_BothInserted ==
    /\ \A p \in UpsertProcs : UpsertCalls[p].pc = "idle"
    /\ ncalls = 2
    /\ \E i \in Inventaires, a \in Articles : Len(lines_of(lignes, i, a)) = 2

(***************************************************************************)
(* scripts/apply_migrations.py: the migration runner.  A file of           *)
(* migrations/ holds MaxStatements statements; mig.sql[f] is 0 when all of *)
(* them succeed and k when the k-th raises.  mig.done[f][k] counts the     *)
(* executions of statement k of file f that are committed.                 *)
(***************************************************************************)
NoFile == 0

Range(s) == {s[i] : i \in DOMAIN s}

RECURSIVE sorted(_)
sorted(S) ==
    IF S = {} THEN <<>>
    ELSE LET m == CHOOSE x \in S : \A y \in S : x <= y
         IN <<m>> \o sorted(S \ {m})

\* sorted(MIGRATIONS_DIR.glob("*.sql"), key=lambda p: p.name)
get_migration_files(dir) == sorted(dir)

\* SELECT filename FROM _migrations, as a set.
get_applied_migrations(recorded) == Range(recorded)

\* One statement of the script that Connection.executescript runs. The
\* method first commits the transaction that is open and then runs the
\* statements one by one outside any transaction: a statement that succeeds
\* is committed as it runs, and the one that fails raises and changes
\* nothing.
execute_statement(done_f, k, fail_at) ==
    IF fail_at = k THEN [done |-> done_f, ok |-> FALSE]
    ELSE [done |-> [done_f EXCEPT ![k] = @ + 1], ok |-> TRUE]

\* INSERT INTO _migrations and commit(), after the script: filename is
\* UNIQUE, so the INSERT raises when a row names the file, and rollback()
\* in the handler finds only that INSERT to undo.
record_migration(recorded, migration_file) ==
    IF migration_file \in Range(recorded)
    THEN [recorded |-> recorded, ok |-> FALSE]
    ELSE [recorded |-> Append(recorded, migration_file), ok |-> TRUE]

\* pending_migrations without its filter: every file is pending.
pending_unfiltered(all_migrations, applied_migrations) == all_migrations

\* [m for m in all_migrations if m.name not in applied_migrations]
pending_migrations(all_migrations, applied_migrations) ==
    SelectSeq(all_migrations, LAMBDA m : m \notin applied_migrations)

\* The record of a run that ends with the database db.
run_record(w, db, failed, uptodate, code) ==
    [mode |-> w.mode, dry_run |-> w.dry_run, dir |-> w.dir,
     recorded0 |-> w.recorded0, done0 |-> w.done0,
     recorded1 |-> db.recorded, done1 |-> db.done,
     attempted |-> w.attempted, succeeded |-> w.succeeded,
     failed |-> failed, uptodate |-> uptodate, code |-> code]

\* What a step of a process gives: the database, the process on its way,
\* and the run's record if the step ended the run.
run_ends(db, w, failed, uptodate, code) ==
    [db |-> db, runner |-> IdleRunner, ended |-> TRUE,
     run |-> run_record(w, db, failed, uptodate, code)]

run_goes_on(m, db, w) ==
    [db |-> db, runner |-> w, ended |-> FALSE, run |-> m.run]

\* main up to init_migrations_table: the options are read and the
\* connection is made; CREATE TABLE IF NOT EXISTS is committed.
main_start(dry_run, status, force) ==
    [IdleRunner EXCEPT
        !.pc = "started",
        !.mode = IF status THEN "status"
                 ELSE IF force # NoFile THEN "force" ELSE "apply",
        !.dry_run = dry_run,
        !.force = force]

\* get_migration_files(), in main or in show_status: the process lists
\* migrations/ as it is then.
main_list(m, w) ==
    run_goes_on(m, [recorded |-> m.recorded, done |-> m.done],
                [w EXCEPT !.pc = "listed", !.dir = m.dir])

\* get_applied_migrations(conn), the SELECT on _migrations as it is then,
\* and what main does with the two lists. --status prints them and
\* returns 0. --force returns 1 when the file is not in migrations/ and
\* goes on with that file alone otherwise, after a DELETE unless --dry-run
\* is given. Without either, the pending files are those of the listing
\* that the SELECT did not give; with none, main prints "up to date" and
\* returns 0.
main_select(m, w) ==
    LET db == [recorded |-> m.recorded, done |-> m.done]
        w0 == [w EXCEPT !.recorded0 = m.recorded, !.done0 = m.done]
        all_migrations == get_migration_files(w.dir)
        applied_migrations == get_applied_migrations(m.recorded)
    IN IF w.mode = "status" THEN run_ends(db, w0, NoFile, FALSE, 0)
       ELSE IF w.mode = "force"
       THEN IF w.force \notin m.dir
            THEN run_ends(db, w0, NoFile, FALSE, 1)
            ELSE run_goes_on(m, db,
                    [w0 EXCEPT !.pc = IF w.dry_run THEN "applying"
                                      ELSE "forcing",
                               !.pending = <<w.force>>,
                               !.stmt = 1])
       ELSE LET pending == pending_migrations(all_migrations,
                                              applied_migrations)
            IN IF pending = <<>> THEN run_ends(db, w0, NoFile, TRUE, 0)
               ELSE run_goes_on(m, db,
                       [w0 EXCEPT !.pc = "applying",
                                  !.pending = pending,
                                  !.stmt = 1])

\* --force without --dry-run: DELETE FROM _migrations WHERE filename = ?
\* and its commit; the copy of the database file follows.
main_force_delete(m, w) ==
    run_goes_on(m, [recorded |-> SelectSeq(m.recorded,
                                           LAMBDA n : n # w.force),
                    done |-> m.done],
                [w EXCEPT !.pc = "applying"])

\* main after a call of apply_migration that returned True: the next
\* pending file, or the summary and return 0.
next_migration(m, db, w) ==
    LET w1 == [w EXCEPT !.pending = Tail(@),
                        !.stmt = 1,
                        !.succeeded = Append(@, Head(w.pending)),
                        !.pc = "applying"]
    IN IF w1.pending = <<>> THEN run_ends(db, w1, NoFile, FALSE, 0)
       ELSE run_goes_on(m, db, w1)

\* apply_migration of the forced file or of the next pending file, up to
\* the next statement of its script. With --dry-run the call prints the
\* text and returns True. Otherwise the statement runs on the database as
\* it is then; when it raises, apply_migration returns False and main
\* returns 1.
main_statement(m, w) ==
    LET db == [recorded |-> m.recorded, done |-> m.done]
        f == Head(w.pending)
        k == w.stmt
        w1 == IF k = 1 THEN [w EXCEPT !.attempted = Append(@, f)] ELSE w
        s == execute_statement(m.done[f], k, m.sql[f])
        after == [db EXCEPT !.done[f] = s.done]
    IN IF w.dry_run THEN next_migration(m, db, w1)
       ELSE IF ~s.ok
       THEN run_ends(after, [w1 EXCEPT !.pending = Tail(@)], f, FALSE, 1)
       ELSE run_goes_on(m, after,
               IF k = MaxStatements THEN [w1 EXCEPT !.pc = "recording"]
               ELSE [w1 EXCEPT !.stmt = k + 1])

\* The end of apply_migration: the file's row of _migrations, on the table
\* as it is then. When the INSERT raises, apply_migration returns False
\* and main returns 1.
main_record(m, w) ==
    LET f == Head(w.pending)
        r == record_migration(m.recorded, f)
        db == [recorded |-> r.recorded, done |-> m.done]
    IN IF r.ok THEN next_migration(m, db, w)
       ELSE run_ends(db, [w EXCEPT !.pending = Tail(@)], f, FALSE, 1)

InitMigrations ==
    /\ stock = ZeroStock
    /\ aux_parent = "buvette_inventaires"
    /\ adj0 = stock
    /\ last = NoCall
    /\ InitTables

\* A .sql file is put in migrations/.
AddMigrationFile ==
    \E f \in Files \ mig.dir, fail_at \in 0..MaxStatements :
        /\ mig' = [mig EXCEPT !.dir = @ \cup {f}, !.sql[f] = fail_at]
        /\ UNCHANGED <<core, ncalls, batches, fifo, ret, ups, lock_vars, artdb, app>>

\* Where each process is in the script.
MigRunners ==
    IF mig.runners = <<>> THEN [r \in Runners |-> IdleRunner] ELSE mig.runners

\* The processes after process r has moved to w.
runners_after(r, w) ==
    LET after == [MigRunners EXCEPT ![r] = w]
    IN IF \A x \in Runners : after[x] = IdleRunner THEN <<>> ELSE after

\* A step of process r that gave t.
MainStep(r, t) ==
    /\ mig' = [mig EXCEPT
                  !.recorded = t.db.recorded,
                  !.done = t.db.done,
                  !.runners = runners_after(r, t.runner),
                  !.run = t.run]
    /\ UNCHANGED <<core, ncalls, batches, fifo, ret, ups, lock_vars, artdb, app>>

\* python scripts/apply_migrations.py [--dry-run] [--status] [--force FILE]
\* --status returns before the other two options are read, so it is
\* given alone. The processes differ in nothing but their names: the one
\* that starts takes the first name that is free.
MainStart(r) ==
    \E dry_run \in BOOLEAN, status \in BOOLEAN, force \in {NoFile} \cup Files :
        /\ MigRunners[r].pc = "idle"
        /\ \A x \in Runners : x < r => MigRunners[x].pc # "idle"
        /\ mig.nruns < MaxRuns
        /\ status => ~dry_run /\ force = NoFile
        /\ mig' = [mig EXCEPT
                      !.forced = @ \/ (force # NoFile /\ ~status),
                      !.nruns = @ + 1,
                      !.runners = runners_after(r, main_start(dry_run, status, force)),
                      !.overlapped = @ \/ \E x \in Runners \ {r} :
                                              MigRunners[x].pc # "idle"]
        /\ UNCHANGED <<core, ncalls, batches, fifo, ret, ups, lock_vars, artdb, app>>

\* The process lists migrations/.
MainList(r) ==
    /\ MigRunners[r].pc = "started"
    /\ MainStep(r, main_list(mig, MigRunners[r]))

\* The process reads _migrations and makes its list of pending files.
MainSelect(r) ==
    /\ MigRunners[r].pc = "listed"
    /\ MainStep(r, main_select(mig, MigRunners[r]))

\* The process deletes the forced file's row.
MainForceDelete(r) ==
    /\ MigRunners[r].pc = "forcing"
    /\ MainStep(r, main_force_delete(mig, MigRunners[r]))

\* The process runs the next statement of the file it is applying.
MainStatement(r) ==
    /\ MigRunners[r].pc = "applying"
    /\ MainStep(r, main_statement(mig, MigRunners[r]))

\* The process records the file whose script it has run.
MainRecord(r) ==
    /\ MigRunners[r].pc = "recording"
    /\ MainStep(r, main_record(mig, MigRunners[r]))

Main(r) ==
    \/ MainStart(r)
    \/ MainList(r)
    \/ MainSelect(r)
    \/ MainForceDelete(r)
    \/ MainStatement(r)
    \/ MainRecord(r)

\* Runs made one after another, by one process; files are put in
\* migrations/ at any time.
NextMigrations ==
    \/ AddMigrationFile
    \/ Main(1)

SpecMigrations == InitMigrations /\ [][NextMigrations]_vars

\* The runs of two processes on the same database, at the same time or not.
MaxConcurrentRuns == 2

NextConcurrentMigrations ==
    \/ AddMigrationFile
    \/ \E r \in Runners : Main(r) /\ mig'.nruns <= MaxConcurrentRuns

SpecConcurrentMigrations == InitMigrations /\ [][NextConcurrentMigrations]_vars

\* The run that ended last applied the pending files: no --status,
\* --dry-run or --force.
PlainRun ==
    mig.run.mode = "apply" /\ ~mig.run.dry_run

\* The files the last run listed in migrations/ that _migrations did not
\* name when the run read it.
Unrecorded == {f \in mig.run.dir : f \notin Range(mig.run.recorded0)}

\* The unrecorded files of the last run, in filename order.
UnrecordedInOrder == sorted(Unrecorded)

\* C18 as it reads: each run applies exactly the files of migrations/ that
\* _migrations does not name, in ascending filename order, and records
\* each of them once; over the runs made without --force no file is
\* applied twice; and a run that finds no new file applies none, prints
\* "up to date" and exits 0.
C18_EveryRunAppliesAllUnrecorded ==
    /\ PlainRun =>
          LET r == mig.run
          IN /\ r.succeeded = UnrecordedInOrder
             /\ r.recorded1 = r.recorded0 \o UnrecordedInOrder
             /\ \A f \in Files, k \in 1..MaxStatements :
                   r.done1[f][k] = r.done0[f][k]
                      + (IF f \in Unrecorded THEN 1 ELSE 0)
             /\ Unrecorded = {} => r.uptodate /\ r.code = 0
    /\ ~mig.forced =>
          \A f \in Files, k \in 1..MaxStatements : mig.done[f][k] <= 1

\* C18, amended, for runs made one after another: a run without --status,
\* --dry-run or --force takes the files of migrations/ that _migrations does
\* not name in ascending filename order and applies and records each of
\* them once, up to the first whose SQL fails, where it stops and exits 1;
\* when none fails it applies them all and exits 0. The statements of the
\* files it applied ran once in the run, and those of the recorded files
\* and of the files after the one that failed did not run. A run that
\* finds no new file applies and records nothing, prints "up to date" and
\* exits 0. As long as no run used --force, no filename is recorded twice
\* and each statement of a recorded file has run once, so that no file is
\* applied again once it is recorded.
C18_AppliesUnrecordedFilesOnceInOrder ==
    /\ PlainRun =>
          LET r == mig.run
              n == Len(r.succeeded)
          IN /\ n <= Len(UnrecordedInOrder)
             /\ r.succeeded = SubSeq(UnrecordedInOrder, 1, n)
             /\ r.recorded1 = r.recorded0 \o r.succeeded
             /\ r.failed = NoFile =>
                   /\ n = Len(UnrecordedInOrder)
                   /\ r.code = 0
             /\ r.failed # NoFile =>
                   /\ n < Len(UnrecordedInOrder)
                   /\ r.failed = UnrecordedInOrder[n + 1]
                   /\ mig.sql[r.failed] # 0
                   /\ r.code = 1
             /\ \A f \in Files \ {r.failed}, k \in 1..MaxStatements :
                   r.done1[f][k] = r.done0[f][k]
                      + (IF f \in Range(r.succeeded) THEN 1 ELSE 0)
             /\ Unrecorded = {} =>
                   /\ r.succeeded = <<>>
                   /\ r.recorded1 = r.recorded0
                   /\ r.done1 = r.done0
                   /\ r.uptodate
                   /\ r.code = 0
             /\ r.uptodate => Unrecorded = {}
    /\ ~mig.forced =>
          /\ \A f \in Range(mig.recorded), k \in 1..MaxStatements :
                mig.done[f][k] = 1
          /\ \A x, y \in DOMAIN mig.recorded :
                mig.recorded[x] = mig.recorded[y] => x = y

\* Three runs were made, none with --force. The first found two files,
\* and the lower one failed at its second statement. A file with a lower
\* name still was then added: the second run applied and recorded it and
\* stopped at the file that fails, and the third run stopped there again:
\* the first statement of that file has run three times, and the highest
\* file was never applied.
C18_Witness ==
    /\ ~mig.forced
    /\ mig.runners = <<>>
    /\ mig.nruns = 3
    /\ PlainRun
    /\ mig.recorded = <<1>>
    /\ mig.done[1] = [k \in 1..MaxStatements |-> 1]
    /\ mig.run.failed = 2
    /\ mig.run.succeeded = <<>>
    /\ mig.sql[2] = 2
    /\ mig.done[2][1] = 3
    /\ 3 \in mig.run.dir
    /\ mig.done[3] = [k \in 1..MaxStatements |-> 0]
    /\ mig.run.code = 1

\* Three runs were made, none with --force, and no file fails.
\* _migrations names three files, the first with a name between the two
\* others: one run applied it alone, a later run applied the two others in
\* filename order, and the last run found nothing new.
ThreeRunsApplyInOrder ==
    /\ ~mig.forced
    /\ mig.runners = <<>>
    /\ mig.nruns = 3
    /\ PlainRun
    /\ Len(mig.recorded) = 3
    /\ mig.recorded[2] < mig.recorded[1]
    /\ mig.recorded[1] < mig.recorded[3]
    /\ mig.run.uptodate
    /\ mig.run.code = 0


\* What holds of a run whose file failed: no row of _migrations names the
\* file, apply_migration was called for no later file, the exit code is 1,
\* and the files applied before it in the run are recorded and in effect.
FailedRunHalts ==
    PlainRun /\ mig.run.failed # NoFile =>
        LET r == mig.run
        IN /\ r.failed \notin Range(r.recorded1)
           /\ r.attempted = r.succeeded \o <<r.failed>>
           /\ r.succeeded \o <<r.failed>> =
                 SubSeq(sorted(Unrecorded), 1, Len(r.succeeded) + 1)
           /\ r.code = 1
           /\ r.recorded1 = r.recorded0 \o r.succeeded
           /\ \A f \in Range(r.succeeded), k \in 1..MaxStatements :
                 r.done1[f][k] = r.done0[f][k] + 1

\* C19: when a file's SQL fails in a run, none of the file's statements is
\* in effect after the run and no row of _migrations names the file, no
\* later pending file is attempted, the exit code is 1, and the files
\* applied earlier in the run stay applied and recorded.
C19_FailedMigrationLeavesNothing ==
    /\ FailedRunHalts
    /\ PlainRun /\ mig.run.failed # NoFile =>
          mig.run.done1[mig.run.failed] = mig.run.done0[mig.run.failed]

\* A run applied one file, then a file failed at its second statement while
\* a later file was pending.
C19_PartWay ==
    /\ PlainRun
    /\ mig.run.failed # NoFile
    /\ mig.sql[mig.run.failed] >= 2
    /\ Len(mig.run.succeeded) = 1
    /\ \E f \in Unrecorded : f > mig.run.failed

\* Two runs at the same time, without --force: both found the same file
\* pending, each ran its statements, none of which fails, and the one that
\* came last to the INSERT into _migrations failed there and returned 1.
OverlappingRunsApplyTwice ==
    /\ mig.overlapped
    /\ ~mig.forced
    /\ mig.runners = <<>>
    /\ \E f \in Files :
          /\ mig.sql[f] = 0
          /\ \A k \in 1..MaxStatements : mig.done[f][k] = 2
          /\ Len(SelectSeq(mig.recorded, LAMBDA n : n = f)) = 1
          /\ mig.run.failed = f
          /\ mig.run.code = 1

\* Two runs at the same time: one listed migrations/, then a file was added
\* and the other run applied what the first had listed and failed part way
\* through the new file; the first then read _migrations, printed "up to
\* date" and returned 0, with the new file half applied and not recorded.
StaleListingReportsUpToDate ==
    /\ mig.overlapped
    /\ ~mig.forced
    /\ mig.runners = <<>>
    /\ PlainRun
    /\ mig.run.uptodate
    /\ mig.run.code = 0
    /\ \E f \in mig.dir :
          /\ f \notin Range(mig.recorded)
          /\ mig.sql[f] = 2
          /\ mig.done[f][1] = 1

\* A run with --status, made while another run was between two statements
\* of a file none of whose statements fails, saw the first in effect and
\* not the last.
StatusSeesHalfAppliedFile ==
    /\ mig.run.mode = "status"
    /\ \E f \in Files :
          /\ mig.sql[f] = 0
          /\ mig.run.done1[f][1] = 1
          /\ mig.run.done1[f][MaxStatements] = 0

(***************************************************************************)
(* modules/buvette_db.py: insert_article and update_article over the two   *)
(* shapes of buvette_articles, with the schema cache, and the unite        *)
(* migration of scripts/migrate_articles_unite_to_quantite.py.  A row is   *)
(* a record over the table's columns.                                      *)
(***************************************************************************)
\* _get_table_columns: PRAGMA table_info only when the key is not cached.
\* The result is the cache after the call; its one element is the answer.
get_table_columns(columns, cache) ==
    IF cache = <<>> THEN <<columns>> ELSE cache

has_unite_type_schema(cached) == "unite_type" \in cached[1]

\* The column the statement of insert_article or update_article names.
unite_column(cached) ==
    IF has_unite_type_schema(cached) THEN "unite_type" ELSE "unite"

\* A new row: AUTOINCREMENT id, name and the named column from the
\* arguments, DEFAULT 0 for stock and quantite, None for the other arguments.
new_article_row(columns, id, name, column, unite) ==
    [c \in columns |-> IF c = "id" THEN id
                       ELSE IF c = "name" THEN <<name>>
                       ELSE IF c = column THEN <<unite>>
                       ELSE IF c \in {"quantite", "stock"} THEN <<0>>
                       ELSE <<>>]

\* UPDATE ... SET name=?, categorie=?, <column>=?, commentaire=?,
\* contenance=?, purchase_price=? with None for the other arguments.
updated_article_row(row, name, column, unite) ==
    [c \in DOMAIN row |->
        IF c = "name" THEN <<name>>
        ELSE IF c = column THEN <<unite>>
        ELSE IF c \in {"categorie", "commentaire", "contenance", "purchase_price"}
             THEN <<>>
        ELSE row[c]]

\* insert_article(name, categorie, unite, ...): the result is the table and
\* cache after the call, and whether the INSERT raised OperationalError
\* because the table has no column of that name. The id column is
\* AUTOINCREMENT: the new id follows the last one given.
insert_article(a, name, unite) ==
    LET cached == get_table_columns(a.columns, a.cache)
        column == unite_column(cached)
    IN IF column \in a.columns
       THEN [rows |-> Append(a.rows,
                             new_article_row(a.columns, a.seq + 1,
                                             name, column, unite)),
             seq |-> a.seq + 1, cache |-> cached, raised |-> FALSE]
       ELSE [rows |-> a.rows, seq |-> a.seq, cache |-> cached, raised |-> TRUE]

\* delete_article(article_id): DELETE FROM buvette_articles WHERE id=? on a
\* connection whose foreign_keys setting the function leaves as it is.
delete_article(a, article_id) ==
    SelectSeq(a.rows, LAMBDA row : row.id # article_id)

\* update_article(article_id, name, categorie, unite, ...)
update_article(a, article_id, name, unite) ==
    LET cached == get_table_columns(a.columns, a.cache)
        column == unite_column(cached)
    IN IF column \in a.columns
       THEN [rows |-> [i \in DOMAIN a.rows |->
                          IF a.rows[i].id = article_id
                          THEN updated_article_row(a.rows[i], name, column, unite)
                          ELSE a.rows[i]],
             cache |-> cached, raised |-> FALSE]
       ELSE [rows |-> a.rows, cache |-> cached, raised |-> TRUE]

\* The article ids that rows of article_purchase_batches hold in their
\* FOREIGN KEY (article_id) REFERENCES buvette_articles(id).
referenced(bt) == {bt[i].article_id : i \in DOMAIN bt}

\* The old column that is copied into purchase_price, if any.
price_column(old_cols) ==
    IF "purchase_price" \in old_cols THEN <<"purchase_price">>
    ELSE IF "prix_achat" \in old_cols THEN <<"prix_achat">>
    ELSE IF "prix" \in old_cols THEN <<"prix">>
    ELSE <<>>

\* INSERT INTO buvette_articles_new (...) SELECT ... FROM buvette_articles,
\* for the i-th row: the columns the old table has are copied, unite goes
\* to unite_type, the others take the defaults of the new table.
copied_row(old_cols, row, i) ==
    [c \in PostColumns |->
        IF c = "id" THEN (IF "id" \in old_cols THEN row.id ELSE i)
        ELSE IF c = "unite_type" THEN row.unite
        ELSE IF c = "purchase_price"
             THEN (IF price_column(old_cols) = <<>> THEN <<>>
                   ELSE row[price_column(old_cols)[1]])
        ELSE IF c \in old_cols THEN row[c]
        ELSE IF c \in {"quantite", "stock"} THEN <<0>>
        ELSE <<>>]

\* migrate(db_path), with PRAGMA foreign_keys = ON. Nothing to do without a
\* unite column. The copy fails on a row without a name (name TEXT NOT
\* NULL): rollback and return. DROP TABLE buvette_articles deletes the rows
\* first, which fails with IntegrityError when a row is referenced: the
\* error leaves migrate and closing the connection rolls back. Otherwise
\* the new table takes the place of the old one, and its row of
\* sqlite_sequence holds the largest id copied.
migrate(a, refs) ==
    LET unchanged(outcome) ==
            [columns |-> a.columns, rows |-> a.rows, seq |-> a.seq,
             outcome |-> outcome]
        copied == [i \in DOMAIN a.rows |-> copied_row(a.columns, a.rows[i], i)]
    IN IF "unite" \notin a.columns THEN unchanged("nothing to do")
       ELSE IF \E i \in DOMAIN copied : copied[i].name = <<>>
            THEN unchanged("copy failed")
       ELSE IF \E i \in DOMAIN a.rows : a.rows[i].id \in refs
            THEN unchanged("IntegrityError")
       ELSE [columns |-> PostColumns, rows |-> copied,
             seq |-> last_id({copied[i].id : i \in DOMAIN copied}),
             outcome |-> "completed"]

\* The ids a run gives: one row may be deleted and followed by a new one.
MaxArticleId == MaxArticleRows + 1

InitArticles ==
    /\ stock = ZeroStock
    /\ aux_parent = "buvette_inventaires"
    /\ adj0 = stock
    /\ last = NoCall
    /\ InitTables

InsertArticle ==
    \E name \in Names, unite \in Unites :
        /\ OneCall
        /\ Len(artdb.rows) < MaxArticleRows
        /\ artdb.seq < MaxArticleId
        /\ LET r == insert_article(artdb, name, unite)
           IN artdb' = [artdb EXCEPT
                         !.rows = r.rows, !.seq = r.seq, !.cache = r.cache,
                         !.last = [op |-> "insert", id |-> artdb.seq + 1,
                                   unite |-> unite, raised |-> r.raised,
                                   columns |-> artdb.columns]]
        /\ UNCHANGED <<core, batches, fifo, ret, ups, lock_vars, mig, app>>

DeleteArticle ==
    \E article_id \in 1..MaxArticleId :
        /\ OneCall
        /\ artdb' = [artdb EXCEPT
                       !.rows = delete_article(artdb, article_id),
                       !.last = [op |-> "delete", id |-> article_id,
                                 unite |-> "", raised |-> FALSE,
                                 columns |-> artdb.columns]]
        /\ UNCHANGED <<core, batches, fifo, ret, ups, lock_vars, mig, app>>

UpdateArticle ==
    \E article_id \in 1..MaxArticleId, name \in Names, unite \in Unites :
        /\ OneCall
        /\ LET r == update_article(artdb, article_id, name, unite)
           IN artdb' = [artdb EXCEPT
                         !.rows = r.rows, !.cache = r.cache,
                         !.last = [op |-> "update", id |-> article_id,
                                   unite |-> unite, raised |-> r.raised,
                                   columns |-> artdb.columns]]
        /\ UNCHANGED <<core, batches, fifo, ret, ups, lock_vars, mig, app>>

Migrate ==
    /\ OneCall
    /\ LET r == migrate(artdb, referenced(batches))
       IN artdb' = [artdb EXCEPT
                     !.columns = r.columns, !.rows = r.rows, !.seq = r.seq,
                     !.last = NoArticleCall,
                     !.migrated = [n |-> artdb.migrated.n + 1,
                                   columns |-> artdb.columns,
                                   rows |-> artdb.rows,
                                   outcome |-> r.outcome]]
    /\ UNCHANGED <<core, batches, fifo, ret, ups, lock_vars, mig, app>>

ClearSchemaCache ==
    /\ OneCall
    /\ artdb' = [artdb EXCEPT !.cache = <<>>, !.last = NoArticleCall]
    /\ UNCHANGED <<core, batches, fifo, ret, ups, lock_vars, mig, app>>

NextArticles ==
    \/ InsertArticle
    \/ UpdateArticle
    \/ DeleteArticle
    \/ Migrate
    \/ ClearSchemaCache

SpecArticles == InitArticles /\ [][NextArticles]_vars

\* The last call was insert_article or update_article.
ArticleCalled == artdb.last.op \in {"insert", "update"}

\* The column that holds the unite value in a table of these columns.
ExistingColumn(columns) ==
    IF "unite_type" \in columns THEN "unite_type" ELSE "unite"

\* The last call did not raise, and the row it wrote holds its unite
\* argument in the column the table had when it was made.
ArticleCallStored ==
    /\ ~artdb.last.raised
    /\ artdb.last.columns = artdb.columns
    /\ \A i \in DOMAIN artdb.rows :
          artdb.rows[i].id = artdb.last.id =>
             artdb.rows[i][ExistingColumn(artdb.last.columns)] = <<artdb.last.unite>>
    /\ artdb.last.op = "insert" =>
          \E i \in DOMAIN artdb.rows : artdb.rows[i].id = artdb.last.id

\* What holds of the calls: one made when the cache is empty or holds the
\* table's present columns succeeds and stores in the existing column.
FreshCacheCallsStore ==
    ArticleCalled /\ artdb.cache = <<artdb.columns>> => ArticleCallStored

\* C20: every insert_article or update_article call, before or after the
\* unite migration and with or without clear_schema_cache in between,
\* succeeds and stores its unite argument in the column that exists at the
\* time of the call.
C20_ArticleCallsSucceedAcrossMigration ==
    ArticleCalled => ArticleCallStored

\* A call filled the cache before the migration, the cache was not
\* cleared, and a call after the migration raised.
C20_StaleCache ==
    /\ ArticleCalled
    /\ artdb.last.raised
    /\ artdb.columns = PostColumns
    /\ artdb.cache = <<PreColumns>>
    /\ artdb.rows # <<>>

(***************************************************************************)
(* migrate_articles_unite_to_quantite.py on a database that also holds the *)
(* purchase batches of stock_db.py.                                        *)
(***************************************************************************)
NextUniteMigration ==
    \/ InsertArticle
    \/ UpdateArticle
    \/ DeleteArticle
    \/ CreatePurchaseBatchFromZero
    \/ Migrate

SpecUniteMigration == InitArticles /\ [][NextUniteMigration]_vars

\* migrate() has just run: no article was written since.
JustMigrated == artdb.migrated.n > 0 /\ artdb.last.op = "none"

\* The ids of the rows of a table.
ArticleIds(rows) == {rows[i].id : i \in DOMAIN rows}

\* The table has the new columns and the rows that migrate() found, each
\* with its fields and with its former unite as unite_type.
UniteReplaced ==
    /\ {"quantite", "unite_type"} \subseteq artdb.columns
    /\ "unite" \notin artdb.columns
    /\ ArticleIds(artdb.rows) = ArticleIds(artdb.migrated.rows)
    /\ \A i \in DOMAIN artdb.migrated.rows :
          \E k \in DOMAIN artdb.rows :
             /\ artdb.rows[k].id = artdb.migrated.rows[i].id
             /\ artdb.rows[k].unite_type = artdb.migrated.rows[i].unite
             /\ \A c \in {"name", "categorie", "contenance", "commentaire",
                           "stock", "purchase_price"} :
                   artdb.rows[k][c] = artdb.migrated.rows[i][c]

\* The table is as migrate() found it.
TableUntouched ==
    artdb.columns = artdb.migrated.columns /\ artdb.rows = artdb.migrated.rows

\* What holds of migrate(): a run that completes replaces unite, and each
\* other run leaves the table as it was.
CompletedMigrateReplacesUnite ==
    JustMigrated =>
       IF artdb.migrated.outcome = "completed"
       THEN "unite" \in artdb.migrated.columns /\ UniteReplaced
       ELSE TableUntouched

\* A table without referenced rows is migrated by the first run.
UnreferencedTableIsMigrated ==
    (JustMigrated /\ "unite" \in artdb.migrated.columns
                  /\ ArticleIds(artdb.migrated.rows) \cap referenced(batches) = {})
        => artdb.migrated.outcome = "completed"

\* C25: after migrate() on a buvette_articles table with a unite column the
\* table has quantite and unite_type and no unite, the same row ids, and
\* every row keeps name, categorie, contenance, commentaire, stock and
\* purchase_price and has its former unite as unite_type; a migrate() on a
\* table without unite changes nothing.
C25_MigrateReplacesUniteOnce ==
    JustMigrated =>
       IF "unite" \in artdb.migrated.columns
       THEN UniteReplaced
       ELSE TableUntouched

\* migrate() ran on a table with a unite column and a row that a purchase
\* batch references, raised IntegrityError, and the table still has unite.
C25_ReferencedArticle ==
    /\ JustMigrated
    /\ artdb.migrated.outcome = "IntegrityError"
    /\ "unite" \in artdb.columns
    /\ artdb.rows # <<>>

\* migrate() ran twice on a table with an article: the first run replaced
\* unite and the second found nothing to do.
MigratedTwice ==
    /\ JustMigrated
    /\ artdb.migrated.n = 2
    /\ artdb.migrated.outcome = "nothing to do"
    /\ artdb.rows # <<>>
    /\ artdb.columns = PostColumns


(***************************************************************************)
(* src/db/compat.py and src/db/connection.py: which file a connection      *)
(* opens.                                                                  *)
(***************************************************************************)
\* The process, started by its first call.
AppProcess == IF app = NotStarted THEN NoApp ELSE app

\* os.getenv("APP_DB_PATH", default)
getenv(env, default) == IF env = <<>> THEN default ELSE env[1]

\* The import of compat, which imports connection: each module that is
\* loaded computes its DB_DEFAULT_PATH from the environment of that moment.
import_compat(a, env, has_connect) ==
    [a EXCEPT !.env = env, !.imported = TRUE, !.has_connect = has_connect,
              !.default = getenv(env, IF has_connect THEN ConnectionDefault
                                      ELSE CompatDefault)]

\* os.environ["APP_DB_PATH"] = str(path)
set_db_file(a, path) == [a EXCEPT !.env = <<path>>]

get_db_file(a) == getenv(a.env, a.default)

\* connect(db_path): path = DB_DEFAULT_PATH if db_path is None.
connect(a, db_path) == IF db_path = <<>> THEN a.default ELSE db_path[1]

\* compat.get_connection(path): connect(path) if the import gave it, else
\* sqlite3.connect(path or get_db_file()). The result is the file opened.
get_connection(a, path) ==
    IF a.has_connect THEN connect(a, path)
    ELSE IF path = <<>> THEN get_db_file(a) ELSE path[1]

AppUnchanged ==
    UNCHANGED <<core, batches, fifo, ret, ups, lock_vars, mig, artdb>>

\* The process starts with APP_DB_PATH set or not, and imports compat.
ImportCompat ==
    \E env \in {<<>>} \cup {<<p>> : p \in DbPaths}, has_connect \in BOOLEAN :
        /\ OneCall
        /\ ~AppProcess.imported
        /\ app' = import_compat(AppProcess, env, has_connect)
        /\ AppUnchanged

SetDbFile ==
    \E path \in DbPaths :
        /\ OneCall
        /\ AppProcess.imported
        /\ app' = [set_db_file(AppProcess, path) EXCEPT
                      !.set = <<path>>,
                      !.last = [op |-> "set_db_file", path |-> <<path>>,
                                result |-> ""]]
        /\ AppUnchanged

GetDbFile ==
    /\ OneCall
    /\ AppProcess.imported
    /\ app' = [AppProcess EXCEPT !.last = [op |-> "get_db_file", path |-> <<>>,
                                    result |-> get_db_file(AppProcess)]]
    /\ AppUnchanged

GetConnection ==
    \E path \in {<<>>} \cup {<<p>> : p \in DbPaths} :
        /\ OneCall
        /\ AppProcess.imported
        /\ app' = [AppProcess EXCEPT !.last = [op |-> "get_connection", path |-> path,
                                        result |-> get_connection(AppProcess, path)]]
        /\ AppUnchanged

NextDbFile ==
    \/ ImportCompat
    \/ SetDbFile
    \/ GetDbFile
    \/ GetConnection

SpecDbFile == InitExec /\ [][NextDbFile]_vars

\* What holds of the accessors: get_db_file() returns the last path set.
GetDbFileReturnsPathSet ==
    (AppProcess.set # <<>> /\ AppProcess.last.op = "get_db_file") =>
        AppProcess.last.result = AppProcess.set[1]

\* What holds of the connections: when connect was imported,
\* get_connection() opens the path that connection.py computed at import.
GetConnectionOpensImportedDefault ==
    (AppProcess.has_connect /\ AppProcess.last.op = "get_connection" /\ AppProcess.last.path = <<>>) =>
        AppProcess.last.result = AppProcess.default

\* C23: after set_db_file(p), get_db_file() returns p and each later
\* get_connection() without a path opens p, set_db_file being called after
\* the import of the connection modules, and however many times.
C23_ConnectionsFollowSetDbFile ==
    AppProcess.set # <<>> =>
        /\ AppProcess.last.op = "get_db_file" => AppProcess.last.result = AppProcess.set[1]
        /\ (AppProcess.last.op = "get_connection" /\ AppProcess.last.path = <<>>) =>
              AppProcess.last.result = AppProcess.set[1]

\* set_db_file was called after the import of connect, and a later
\* get_connection() opened the default of connection.py.
C23_OpensDefaultAfterSet ==
    /\ AppProcess.has_connect
    /\ AppProcess.set # <<>>
    /\ AppProcess.last.op = "get_connection"
    /\ AppProcess.last.path = <<>>
    /\ AppProcess.last.result = ConnectionDefault
    /\ AppProcess.env # <<ConnectionDefault>>

(***************************************************************************)
(* src/db/connection.py: transaction(conn) on a connection of connect(),   *)
(* which is in autocommit mode (isolation_level=None).  The body of the    *)
(* with statement runs between BEGIN and commit: it writes rows, enters    *)
(* transaction(conn) again, and returns, raises an error (an exception of  *)
(* class Exception), or is left by an exception that "except Exception"    *)
(* lets through (KeyboardInterrupt, SystemExit, GeneratorExit).            *)
(***************************************************************************)
Bodies == {"returns", "raises", "interrupted"}

\* The scopes of the connection that were entered and not left.
TxnScopes == AppProcess.txn.scopes

\* The scopes around a transaction() that is entered inside them.
entered_inside(scopes) ==
    [k \in DOMAIN scopes |-> [scopes[k] EXCEPT !.nested = @ + 1]]

\* The scopes around a row that is written inside them.
written_inside(scopes) ==
    [k \in DOMAIN scopes |-> [scopes[k] EXCEPT !.writes = @ + 1]]

\* cur = conn.cursor(); cur.execute("BEGIN") and yield cur. BEGIN raises
\* OperationalError when a transaction is open on the connection: the
\* handler's conn.rollback() then discards the rows of that transaction,
\* the error is raised again and finally closes the cursor.
transaction_enter(c) ==
    IF c.in_transaction
    THEN [c EXCEPT !.pending = 0, !.in_transaction = FALSE,
                   !.scopes = entered_inside(c.scopes),
                   !.ran = FALSE, !.body = "none",
                   !.raised = "OperationalError",
                   !.rows0 = c.rows, !.writes = 0, !.nested = 0,
                   !.rows1 = c.rows, !.pending1 = 0,
                   !.in_transaction1 = FALSE,
                   !.cursor_closed = TRUE]
    ELSE [c EXCEPT !.in_transaction = TRUE,
                   !.cursors = @ + 1,
                   !.scopes = Append(entered_inside(c.scopes),
                                     [rows0 |-> c.rows, writes |-> 0,
                                      nested |-> 0])]

\* cur.execute of an INSERT in the body: the row belongs to the open
\* transaction; when none is open the connection commits it at once.
transaction_write(c) ==
    [c EXCEPT !.rows = IF c.in_transaction THEN @ ELSE @ + 1,
              !.pending = IF c.in_transaction THEN @ + 1 ELSE @,
              !.scopes = written_inside(c.scopes)]

\* The innermost body ends. It returns: conn.commit(). It raises an
\* error: conn.rollback() and raise. Any other exception passes "except
\* Exception" and nothing is done to the transaction. finally: cur.close().
transaction_exit(c, body) ==
    LET n == Len(c.scopes)
        s == c.scopes[n]
        rows1 == IF body = "returns" THEN c.rows + c.pending ELSE c.rows
        pending1 == IF body = "interrupted" THEN c.pending ELSE 0
        open1 == body = "interrupted" /\ c.in_transaction
    IN [c EXCEPT !.rows = rows1, !.pending = pending1,
                 !.in_transaction = open1,
                 !.cursors = @ - 1,
                 !.scopes = SubSeq(c.scopes, 1, n - 1),
                 !.ran = TRUE, !.body = body,
                 !.raised = IF body = "returns" THEN "none"
                            ELSE IF body = "raises" THEN "error"
                            ELSE "KeyboardInterrupt",
                 !.rows0 = s.rows0, !.writes = s.writes,
                 !.nested = s.nested,
                 !.rows1 = rows1, !.pending1 = pending1,
                 !.in_transaction1 = open1,
                 !.cursor_closed = (c.cursors - 1 = n - 1)]

\* "with transaction(conn) as cur:" is reached, by the caller or by the
\* body of a scope that is open.
TransactionEnter ==
    /\ OneCall
    /\ Len(TxnScopes) < MaxNesting
    /\ app' = [AppProcess EXCEPT !.txn = transaction_enter(AppProcess.txn)]
    /\ AppUnchanged

\* The innermost body writes a row.
TransactionWrite ==
    /\ TxnScopes # <<>>
    /\ \A k \in DOMAIN TxnScopes : TxnScopes[k].writes < MaxStatements
    /\ app' = [AppProcess EXCEPT !.txn = transaction_write(AppProcess.txn)]
    /\ UNCHANGED ncalls
    /\ AppUnchanged

\* The innermost body ends.
TransactionExit ==
    \E body \in Bodies :
        /\ TxnScopes # <<>>
        /\ app' = [AppProcess EXCEPT !.txn = transaction_exit(AppProcess.txn, body)]
        /\ UNCHANGED ncalls
        /\ AppUnchanged

NextTransaction ==
    \/ TransactionEnter
    \/ TransactionWrite
    \/ TransactionExit

SpecTransaction == InitExec /\ [][NextTransaction]_vars

\* C21: when the body of "with transaction(conn)" exits normally, all the
\* rows written inside the scope are committed; when it raises, every row
\* written inside the scope is rolled back and the exception reaches the
\* caller; in both cases the cursor is closed and no transaction is left
\* open on the connection.
C21_TransactionCommitsOrRollsBack ==
    AppProcess.txn.ran =>
        /\ AppProcess.txn.body = "returns" =>
              /\ AppProcess.txn.rows1 = AppProcess.txn.rows0 + AppProcess.txn.writes
              /\ AppProcess.txn.raised = "none"
        /\ AppProcess.txn.body # "returns" =>
              /\ AppProcess.txn.rows1 = AppProcess.txn.rows0
              /\ AppProcess.txn.raised # "none"
        /\ AppProcess.txn.pending1 = 0
        /\ ~AppProcess.txn.in_transaction1
        /\ AppProcess.txn.cursor_closed

\* What holds of a scope inside which transaction() was not entered and
\* whose body returns or raises an error: the rows are committed, or they
\* are rolled back and the error reaches the caller, and no transaction
\* is left open.
ScopeAloneCommitsOrRollsBack ==
    (/\ AppProcess.txn.ran
     /\ AppProcess.txn.nested = 0
     /\ AppProcess.txn.body \in {"returns", "raises"}) =>
        /\ AppProcess.txn.body = "returns" =>
              /\ AppProcess.txn.rows1 = AppProcess.txn.rows0 + AppProcess.txn.writes
              /\ AppProcess.txn.raised = "none"
        /\ AppProcess.txn.body = "raises" =>
              /\ AppProcess.txn.rows1 = AppProcess.txn.rows0
              /\ AppProcess.txn.raised = "error"
        /\ AppProcess.txn.pending1 = 0
        /\ ~AppProcess.txn.in_transaction1

\* What holds of every scope: its cursor is closed when it is left, and
\* the cursors that are open are those of the scopes that are.
CursorAlwaysClosed ==
    /\ AppProcess.txn.cursors = Len(TxnScopes)
    /\ AppProcess.txn.raised # "none" \/ AppProcess.txn.ran =>
          AppProcess.txn.cursor_closed

\* After a transaction that committed rows, the body of another wrote two
\* rows and raised an error: the rows of before are there and no other.
RaisingBodyRolledBack ==
    /\ AppProcess.txn.ran
    /\ AppProcess.txn.body = "raises"
    /\ AppProcess.txn.nested = 0
    /\ AppProcess.txn.rows0 > 0
    /\ AppProcess.txn.writes = 2
    /\ AppProcess.txn.rows1 = AppProcess.txn.rows0

\* What holds of the other ways out: an exception that is no error leaves
\* the transaction open with the rows of the body, and a BEGIN that fails
\* leaves none open and no row pending.
InterruptedBodyLeavesTransactionOpen ==
    /\ (/\ AppProcess.txn.ran
        /\ AppProcess.txn.body = "interrupted"
        /\ AppProcess.txn.nested = 0) =>
          /\ AppProcess.txn.in_transaction1
          /\ AppProcess.txn.pending1 = AppProcess.txn.writes
    /\ (AppProcess.txn.raised = "OperationalError" /\ ~AppProcess.txn.ran) =>
          ~AppProcess.txn.in_transaction1 /\ AppProcess.txn.pending1 = 0

\* A body wrote two rows, entered transaction(conn), whose BEGIN failed,
\* and returned: none of its rows is committed.
NestedTransactionLosesOuterWrites ==
    /\ AppProcess.txn.ran
    /\ AppProcess.txn.body = "returns"
    /\ AppProcess.txn.nested = 1
    /\ AppProcess.txn.writes = 2
    /\ AppProcess.txn.rows1 = AppProcess.txn.rows0

\* A body entered transaction(conn), whose BEGIN failed, wrote a row and
\* raised an error: the row is committed.
RaisingBodyKeepsRowWrittenAfterNested ==
    /\ AppProcess.txn.ran
    /\ AppProcess.txn.body = "raises"
    /\ AppProcess.txn.nested = 1
    /\ AppProcess.txn.writes = 1
    /\ AppProcess.txn.rows1 = AppProcess.txn.rows0 + 1

(***************************************************************************)
(* exports/exports.py and exports/export_bilan_argumente.py: the export    *)
(* functions up to the file they write.                                    *)
(***************************************************************************)
ExportFunctions ==
    {"export_dataframe_to_excel", "export_dataframe_to_csv",
     "export_dataframe_to_pdf", "export_bilan_reporte_pdf",
     "export_bilan_argumente_pdf", "export_bilan_argumente_word"}

Libraries == {"reportlab", "docx"}

\* The paths a caller or the save dialog gives. The dialog returns "" when
\* it is cancelled (or an empty tuple, which "not file_path" treats alike).
ExportPaths == {"bilan.pdf", "data.csv"}

\* The library a function imports before anything else, <<>> if none.
required_library(fn) ==
    IF fn \in {"export_dataframe_to_pdf", "export_bilan_reporte_pdf",
               "export_bilan_argumente_pdf"} THEN <<"reportlab">>
    ELSE IF fn = "export_bilan_argumente_word" THEN <<"docx">>
    ELSE <<>>

\* How the statements of the try block that make the file end: the file is
\* written, or they raise with no file.
Attempts == {"done", "raised"}

\* The calls of Tk in which an export waits: the save dialog and the three
\* message boxes. While it waits the application's event loop runs.
ExportWaits == {"dialog", "showinfo", "showerror", "missing library"}

\* A dialog or a message box that names no master, as those of the exports
\* are: tkinter makes a root window for it. When the window cannot be
\* made (no display) the call raises TclError and tkinter is left without
\* support for a default root, so that every later call of the process
\* raises RuntimeError. "none": the call is shown and waits.
tk_error(support_default_root, display) ==
    IF ~support_default_root THEN "RuntimeError"
    ELSE IF ~display THEN "TclError"
    ELSE "none"

\* The beginning of an export function: the import of its library; when it
\* is missing, messagebox.showerror and then ImportError. Otherwise the
\* save dialog "if file_path is None", and with a file_path the try block.
export_enter(fn, files, installed, file_path) ==
    LET lib == required_library(fn)
        missing == lib # <<>> /\ lib[1] \notin installed
        c == [NoExport EXCEPT !.fn = fn, !.file_path = file_path,
                              !.missing = missing,
                              !.files0 = files, !.files1 = files]
    IN  IF missing THEN [c EXCEPT !.pc = "missing library"]
        ELSE IF file_path = <<>>
        THEN [c EXCEPT !.pc = "dialog", !.asked = TRUE]
        ELSE [c EXCEPT !.pc = "try", !.path = file_path[1]]

\* filedialog.asksaveasfilename returns a path, or "" when it is cancelled
\* (or an empty tuple, which "not file_path" treats alike).
export_dialog(c, answer) ==
    [c EXCEPT !.pc = "try", !.answered = TRUE,
              !.dialog = answer, !.path = answer]

\* The try block of a call that goes on with whatever path it has.
export_try_without_cancel_test(c, files, attempt) ==
    IF attempt = "done"
    THEN [call |-> [c EXCEPT !.pc = "showinfo", !.wrote = @ \cup {c.path}],
          files |-> files \cup {c.path}]
    ELSE [call |-> [c EXCEPT !.pc = "showerror", !.raised = "Exception"],
          files |-> files]

\* The return "if not file_path", then the try block: it writes the file
\* and calls messagebox.showinfo; an error of the statements that write
\* is caught, and the handler calls messagebox.showerror.
export_try(c, files, attempt) ==
    IF c.path = ""
    THEN [call |-> [c EXCEPT !.pc = "returned"], files |-> files]
    ELSE IF attempt = "done"
    THEN [call |-> [c EXCEPT !.pc = "showinfo", !.wrote = @ \cup {c.path}],
          files |-> files \cup {c.path}]
    ELSE [call |-> [c EXCEPT !.pc = "showerror", !.raised = "Exception"],
          files |-> files]

\* The call r.call has come to the dialog or message box of its pc. The
\* box is shown and the call waits in it, or it raises at once. The save
\* dialog, showerror of the handler and showerror for the missing library
\* are outside any try block: their error leaves the function. showinfo
\* is inside the try block: its error is caught with the file written,
\* and showerror of the handler, which comes after the first failure of
\* the process, raises RuntimeError.
export_show(r, support_default_root, display) ==
    LET c == r.call
        e == tk_error(support_default_root, display)
    IN  IF c.pc \notin ExportWaits
        THEN [call |-> c, files |-> r.files,
              support_default_root |-> support_default_root]
        ELSE IF e = "none"
        THEN [call |-> c, files |-> r.files, support_default_root |-> TRUE]
        ELSE [call |-> [c EXCEPT !.pc = "returned",
                                 !.raised = IF c.pc = "showinfo"
                                            THEN "RuntimeError" ELSE e],
              files |-> r.files, support_default_root |-> FALSE]

\* A message box that was shown returns. After showinfo the function
\* returns; after showerror of the handler the error that was caught is
\* raised again ("raise"); after showerror for the missing library
\* ImportError is raised.
export_box(c) ==
    IF c.pc = "missing library"
    THEN [c EXCEPT !.pc = "returned", !.raised = "ImportError"]
    ELSE [c EXCEPT !.pc = "returned"]

\* The process after a step of its innermost export call: r is the call,
\* the files and tkinter's support after the step, below the calls that
\* wait around it.
export_step(a, below, r) ==
    IF r.call.pc = "returned"
    THEN [a EXCEPT !.files = r.files, !.exporting = below,
                   !.support_default_root = r.support_default_root,
                   !.export = [r.call EXCEPT !.files1 = r.files]]
    ELSE [a EXCEPT !.files = r.files,
                   !.support_default_root = r.support_default_root,
                   !.exporting = Append(below, r.call)]

\* The calls that wait around the innermost one.
ExportsBelow == SubSeq(AppProcess.exporting, 1, Len(AppProcess.exporting) - 1)

ExportInnermost == AppProcess.exporting[Len(AppProcess.exporting)]

\* The ends the try block of call c can have: one when the call does not
\* come to the statements that write.
TryAttempts(c) ==
    IF c.pc = "try" /\ c.path # "" THEN Attempts ELSE {"done"}

\* An export function is called, by the application or, while another
\* export waits in a dialog or a message box, by a callback of the event
\* loop. It runs up to its first wait, or to its end. installed: those of
\* the libraries it imports that are installed; display: a window can be
\* made when the call comes to its dialog or message box.
ExportCall ==
    \E fn \in ExportFunctions,
       file_path \in {<<>>} \cup {<<p>> : p \in ExportPaths \cup {""}},
       display \in BOOLEAN :
      \E installed \in SUBSET Range(required_library(fn)) :
        LET c == export_enter(fn, AppProcess.files, installed, file_path)
            waiting == [k \in 1..Len(AppProcess.exporting) |->
                          [AppProcess.exporting[k] EXCEPT !.nested = @ + 1]]
        IN  /\ OneCall
            /\ Len(AppProcess.exporting) < MaxNesting
            /\ \E attempt \in TryAttempts(c) :
                  app' = export_step([AppProcess EXCEPT !.export = NoExport],
                            waiting,
                            export_show(
                                IF c.pc = "try"
                                THEN export_try(c, AppProcess.files, attempt)
                                ELSE [call |-> c, files |-> AppProcess.files],
                                AppProcess.support_default_root, display))
            /\ AppUnchanged

\* The save dialog of the innermost call returns, and the call goes on to
\* its next wait or to its end.
ExportDialog ==
    \E answer \in ExportPaths \cup {""}, display \in BOOLEAN :
        /\ AppProcess.exporting # <<>>
        /\ ExportInnermost.pc = "dialog"
        /\ LET c == export_dialog(ExportInnermost, answer)
           IN \E attempt \in TryAttempts(c) :
                 app' = export_step(AppProcess, ExportsBelow,
                           export_show(
                               export_try(c, AppProcess.files, attempt),
                               AppProcess.support_default_root, display))
        /\ UNCHANGED ncalls
        /\ AppUnchanged

\* The message box of the innermost call returns, and the call ends.
ExportBox ==
    /\ AppProcess.exporting # <<>>
    /\ ExportInnermost.pc \in ExportWaits \ {"dialog"}
    /\ app' = export_step(AppProcess, ExportsBelow,
                  [call |-> export_box(ExportInnermost),
                   files |-> AppProcess.files,
                   support_default_root |-> AppProcess.support_default_root])
    /\ UNCHANGED ncalls
    /\ AppUnchanged

NextExports ==
    \/ ExportCall
    \/ ExportDialog
    \/ ExportBox

SpecExports == InitExec /\ [][NextExports]_vars

\* C24: each export function called with no file_path, whose save dialog
\* returns an empty or cancelled result, returns without raising and writes
\* no file: the call wrote none, and when no other call ran while the dialog
\* was open the files at its return are those of before the call.
C24_CancelledExportWritesNothing ==
    (/\ AppProcess.export.asked
     /\ AppProcess.export.answered
     /\ AppProcess.export.dialog = "") =>
        /\ AppProcess.export.raised = "none"
        /\ AppProcess.export.wrote = {}
        /\ AppProcess.export.nested = 0 =>
              AppProcess.export.files1 = AppProcess.export.files0

\* After an export that wrote a file, export_bilan_argumente_word was
\* called with no file_path and its dialog was cancelled.
C24_Witness ==
    /\ AppProcess.export.fn = "export_bilan_argumente_word"
    /\ AppProcess.export.file_path = <<>>
    /\ AppProcess.export.asked
    /\ AppProcess.export.answered
    /\ AppProcess.export.dialog = ""
    /\ AppProcess.export.raised = "none"
    /\ AppProcess.export.nested = 0
    /\ AppProcess.export.files1 # {}

\* What the missing library does: the function raises before it asks for
\* a path, ImportError or the error of the message box, and writes nothing.
MissingLibraryRaisesBeforeDialog ==
    AppProcess.export.missing =>
        /\ AppProcess.export.raised \in {"ImportError", "TclError", "RuntimeError"}
        /\ ~AppProcess.export.asked
        /\ AppProcess.export.wrote = {}

\* What holds of the errors of Tk: after one of them tkinter has no
\* support for a default root.
TkErrorLeavesNoSupport ==
    AppProcess.export.raised \in {"TclError", "RuntimeError"} =>
        ~AppProcess.support_default_root

\* TclError is raised by the first dialog or message box of the process
\* that cannot be shown, and by no later one.
TclErrorOnlyOnce ==
    [][(/\ AppProcess'.export # AppProcess.export
        /\ AppProcess'.export.raised = "TclError")
          => AppProcess.support_default_root]_vars

\* The message box for the missing library could not be shown: the call,
\* made with no file_path, ended with TclError in the place of ImportError.
MissingLibraryBoxRaises ==
    /\ AppProcess.export.fn = "export_bilan_argumente_word"
    /\ AppProcess.export.file_path = <<>>
    /\ AppProcess.export.missing
    /\ ~AppProcess.export.asked
    /\ AppProcess.export.raised = "TclError"
    /\ AppProcess.files # {}

\* A call raised with its file written: the message box that follows the
\* write is inside the try block, and the message box of the handler
\* raised in its turn.
RaisedWithFileWritten ==
    /\ AppProcess.export.raised = "RuntimeError"
    /\ AppProcess.export.wrote # {}

\* After a first dialog or message box that could not be shown, the save
\* dialog of another call raised RuntimeError.
LaterDialogRaisesRuntimeError ==
    /\ ~AppProcess.support_default_root
    /\ AppProcess.export.asked
    /\ ~AppProcess.export.answered
    /\ AppProcess.export.raised = "RuntimeError"

\* While the save dialog of a call was open a callback exported a file;
\* the dialog was then cancelled, and the call returned having written
\* nothing, with one file more than before it.
CallbackExportsDuringDialog ==
    /\ AppProcess.export.asked
    /\ AppProcess.export.answered
    /\ AppProcess.export.dialog = ""
    /\ AppProcess.export.wrote = {}
    /\ AppProcess.export.nested = 1
    /\ AppProcess.export.files0 = {}
    /\ AppProcess.export.files1 # {}

\* The file of a call is written and the call has not returned: it waits
\* in the message box.
FileWrittenBeforeReturn ==
    /\ AppProcess.exporting # <<>>
    /\ ExportInnermost.pc = "showinfo"
    /\ ExportInnermost.path \in AppProcess.files

(***************************************************************************)
(* stock_db.py: two inventaires, each with one line for the same article,  *)
(* applied one after the other and then reverted, with no other write of   *)
(* the stock.                                                              *)
(***************************************************************************)
InitTwoInventaires ==
    /\ stock \in [Articles -> 0..1]
    /\ aux_parent = "buvette_inventaires"
    /\ adj0 = stock
    /\ last = NoCall
    /\ \E a \in Articles, qA \in 0..MaxQuantite, qB \in 0..MaxQuantite :
          lignes = <<Ligne(1, a, qA, <<>>), Ligne(2, a, qB, <<>>)>>
    /\ InitBesideLignes

\* apply_inventory_snapshot of an inventaire that was not applied yet.
ApplyOneOfTwo ==
    \E i \in Inventaires \ Range(last.applied) :
        LET r == apply_inventory_snapshot(stock, journal, lignes, i)
        IN  /\ OneCall
            /\ stock' = r.stock
            /\ journal' = r.journal
            /\ last' = [Call("apply_inventory_snapshot", i, 0, 0)
                          EXCEPT !.njournal = Len(journal),
                                 !.applied = Append(last.applied, i)]
            /\ UNCHANGED <<others, purchase_price, lignes, mouvements,
                           inventaires, base, clean, adj0, adjSum, adjClamped>>

\* revert_inventory_effect of one of the two, once both were applied.
RevertOneOfTwo ==
    \E i \in Inventaires \ Range(last.reverted) :
        LET r == revert_inventory_effect(stock, journal, i)
        IN  /\ OneCall
            /\ Range(last.applied) = Inventaires
            /\ stock' = r.stock
            /\ journal' = r.journal
            /\ last' = [Call("revert_inventory_effect", i, 0, 0)
                          EXCEPT !.njournal = Len(journal_of(journal, i)),
                                 !.applied = last.applied,
                                 !.reverted = Append(last.reverted, i)]
            /\ UNCHANGED <<others, purchase_price, lignes, mouvements,
                           inventaires, base, clean, adj0, adjSum, adjClamped>>

NextTwoInventaires ==
    \/ ApplyOneOfTwo
    \/ RevertOneOfTwo

SpecTwoInventaires == InitTwoInventaires /\ [][NextTwoInventaires]_vars

\* Both inventaires were applied and both were reverted.
BothReverted == Len(last.reverted) = 2

\* What holds: reverting the two in the reverse of the order in which they
\* were applied gives back the stock of before the first application.
RevertedLastFirstRestores ==
    (/\ BothReverted
     /\ last.reverted[1] = last.applied[2]) => stock = adj0

\* C28: when two inventaires were applied one after the other to the same
\* article and nothing else wrote the stock, reverting both, in either
\* order, gives the article the stock it had before the first was applied.
C28_RevertBothRestores ==
    BothReverted => stock = adj0

\* The inventaire applied first was also reverted first, and the stock is
\* not the one of before the applications.
C28_FirstRevertedFirst ==
    /\ BothReverted
    /\ last.reverted = last.applied
    /\ stock # adj0

====
